---- MODULE Spec2Model ----
(***************************************************************************)
(* A model of the eduujoy-ui back end: the learning-plan exchange          *)
(* (webhook callback, poll, delete over the learningData table), the       *)
(* Gemini summarize handler with its retry loop, the in-memory resource    *)
(* cache and the sliding-window rate limiter.                              *)
(*                                                                         *)
(* Strings that the code takes apart (identifiers, transcripts) are        *)
(* sequences of one-character strings.  Time is counted in ticks; the      *)
(* unit of a tick is stated where a duration is defined.                   *)
(***************************************************************************)
EXTENDS Integers, Sequences, FiniteSets, TLC

VARIABLES
    now,        \* the wall clock, Date.now() / new Date(), in ticks
    db,         \* the learningData table: a set of rows
    evicting,   \* keys for which a GET found an expired row and awaits its delete
    hist,       \* observer: per key, the latest accepted callback still in force
    lastResp,   \* observer: the latest response sent by an Exchange handler
    cache,      \* CacheStore.store: key -> {value, expiresAt}
    sets,       \* observer: per key, the latest set(key, value, ttl) and its time
    lastCache,  \* observer: the latest cache call and what it returned
    requestCounts,  \* the rate limiter's map: identifier -> timestamps
    rlLimit,    \* the limit the rate limiter is called with
    rlWindow,   \* the window the rate limiter is called with
    swept,      \* cleanupRateLimiter has run
    calls,      \* observer: the calls of checkRateLimit so far and their results
    apiKeySet,  \* GEMINI_API_KEY is set in the environment
    inflight,   \* the summarize request being handled: the handler's state
    lastSum,    \* observer: the latest response of the summarize handler
    done,       \* observer: videoId -> the latest summary generated for it
    trunc,      \* a call of truncateTranscript: its arguments and its result
    submit,     \* the submission endpoint handling one request
    poller,     \* the client's polling loop and the screen it ends on
    errs,       \* the deployment's mode and the error responses sent in it
    lastApi     \* observer: the latest response of the search, metadata or
                \* transcript endpoint

exState == <<db, evicting, hist, lastResp>>

cacheState == <<cache, sets, lastCache>>

rateState == <<requestCounts, rlLimit, rlWindow, swept, calls>>

sumState == <<apiKeySet, inflight, lastSum, done>>

compState == <<trunc, submit, poller, errs, lastApi>>

vars == <<now, exState, cacheState, rateState, sumState, compState>>

(***************************************************************************)
(* Bounds of the model.                                                    *)
(***************************************************************************)
MaxTime == 4

\* the resource cache alone: the clock's end and the longest ttl
MaxCacheTime == 4
MaxTtl == 2

\* the summarize handler: the clock's end
MaxSumTime == 2

\* truncateTranscript alone: the longest transcript and the largest maximum
MaxSegments == 2

\* the error responses of a deployment that are looked at together
MaxSent == 2

MaxLen == 24
MaxM == 22

\* the rate limiter alone: the clock's end, the largest limit and window,
\* and the number of calls observed
MaxRateTime == 4
MaxLimit == 2
MaxWindow == 3
MaxCalls == 4

(***************************************************************************)
(* Values.                                                                 *)
(***************************************************************************)
\* undefined / null / a missing JSON field or query parameter
None == <<"undefined">>

\* typeof v === 'string'
IsString(v) == v # None

Digit == {"0", "1", "2", "3", "4", "5", "6", "7", "8", "9"}

\* 30 * 60 * 1000 ms, in ticks of 15 minutes
CACHE_EXPIRATION == 2

(***************************************************************************)
(* String helpers, computed as String.prototype does.                      *)
(***************************************************************************)
\* s.includes(c)
Includes(s, c) == \E i \in 1..Len(s) : s[i] = c

\* s.split(sep) for a one-character separator: always at least one part
RECURSIVE Split(_, _)
Split(s, sep) ==
    IF ~Includes(s, sep) THEN <<s>>
    ELSE LET i == CHOOSE j \in 1..Len(s) :
                      s[j] = sep /\ \A k \in 1..(j - 1) : s[k] # sep
         IN  <<SubSeq(s, 1, i - 1)>> \o Split(SubSeq(s, i + 1, Len(s)), sep)

\* parts.join(sep)
RECURSIVE Join(_, _)
Join(parts, sep) ==
    IF Len(parts) = 0 THEN <<>>
    ELSE IF Len(parts) = 1 THEN parts[1]
    ELSE parts[1] \o <<sep>> \o Join(Tail(parts), sep)

\* /^\d+$/.test(s)
AllDigits(s) == Len(s) >= 1 /\ \A i \in 1..Len(s) : s[i] \in Digit

\* String(n) for a natural number
RECURSIVE ToStr(_)
ToStr(n) ==
    IF n < 10 THEN <<CHOOSE d \in Digit :
                        d = <<"0", "1", "2", "3", "4", "5", "6", "7", "8", "9">>[n + 1]>>
    ELSE ToStr(n \div 10) \o ToStr(n % 10)

(***************************************************************************)
(* Learning-plan exchange: identifiers and callback payloads.              *)
(***************************************************************************)
\* an identifier that is used as it comes, to compare with
ExtractNothing(requestId) == requestId

\* extractEmailFromRequestId: strip one trailing "_<digits>" segment
ExtractEmailFromRequestId(requestId) ==
    LET parts == Split(requestId, "_")
    IN  IF Len(parts) >= 2 /\ AllDigits(parts[Len(parts)])
        THEN Join(SubSeq(parts, 1, Len(parts) - 1), "_")
        ELSE requestId

\* a module without a title
NoTitle == "(no title)"

\* learningData.learning_path mapped to the app format (module_number, module_title)
TransformPath(titles) ==
    [i \in 1..Len(titles) |->
        [module_number |-> i,
         module_title  |-> IF titles[i] = NoTitle THEN "" ELSE titles[i]]]

\* transformN8nData: throws when the payload has no learningData
TransformN8nData(p) ==
    IF ~p.hasLearningData
    THEN [thrown |-> TRUE, email |-> None, learning_path |-> <<>>]
    ELSE [thrown |-> FALSE, email |-> p.email,
          learning_path |-> TransformPath(p.titles)]

\* body?.<field>: the top-level object is the payload itself unless it is
\* wrapped in {body: ...} (then its own fields) or an array (no such field)
BodyField(p, inner, top) ==
    CASE p.shape = "object"  -> inner
      [] p.shape = "wrapped" -> top
      [] p.shape = "array"   -> None

\* .filter((v) => typeof v === 'string' && v.length > 0)
NonEmptyString(v) == IsString(v) /\ Len(v) > 0

\* candidate identifiers with the e-mail addresses first, to compare with
CandidateIdsEmailFirst(p, learningData) ==
    SelectSeq(<<learningData.email,
                p.email,
                p.dataId,
                BodyField(p, p.dataId, p.topDataId),
                p.requestId,
                BodyField(p, p.requestId, p.topRequestId),
                p.ldEmail,
                p.psEmail,
                p.psContactEmail>>, NonEmptyString)

\* candidateIds, in the order the handler lists them
CandidateIds(p, learningData) ==
    SelectSeq(<<p.dataId,
                BodyField(p, p.dataId, p.topDataId),
                p.requestId,
                BodyField(p, p.requestId, p.topRequestId),
                learningData.email,
                p.email,
                p.ldEmail,
                p.psEmail,
                p.psContactEmail>>, NonEmptyString)

\* `learning-${Date.now()}`
SyntheticId(t) == <<"l", "-">> \o ToStr(t)

\* an email check that lets every value through, to compare with
InvalidEmailNever(v) == FALSE

\* !email || typeof email !== 'string' || !email.includes('@')
InvalidEmail(v) == ~IsString(v) \/ Len(v) = 0 \/ ~Includes(v, "@")

\* the rawDataId the handler resolves
RawDataId(p, learningData, t) ==
    LET c == CandidateIds(p, learningData)
    IN  IF Len(c) > 0 THEN c[1] ELSE SyntheticId(t)

\* POST up to the store call: the response status, the resolved key and
\* whether storeDataWithFallback is reached
PostOutcome(p, t) ==
    LET learningData == TransformN8nData(p)
        Reject(code, why) ==
            [store |-> FALSE, status |-> code, error |-> why,
             dataId |-> None, learning_path |-> <<>>]
    IN  IF learningData.thrown
        THEN Reject(500, "Failed to process learning data")
        ELSE IF Len(learningData.learning_path) = 0
        THEN Reject(400, "Invalid learning data structure - no learning_path found")
        ELSE IF InvalidEmail(learningData.email)
        THEN Reject(400, "Invalid or missing email address")
        ELSE [store |-> TRUE, status |-> 200, error |-> "",
              dataId |-> ExtractEmailFromRequestId(RawDataId(p, learningData, t)),
              learning_path |-> learningData.learning_path]

(***************************************************************************)
(* The learningData table (Prisma): rows keyed by email.                   *)
(***************************************************************************)
RowsOf(table, dataId) == {r \in table : r.email = dataId}

\* a store that inserts a row whatever the table holds, to compare with
StoreAlwaysCreate(table, dataId, learning_path, t) ==
    table \cup {[email |-> dataId, learningPath |-> learning_path,
                 expiresAt |-> t + CACHE_EXPIRATION]}

\* storeLearningData: prisma.learningData.upsert({where: {email: dataId}, ...})
StoreLearningData(table, dataId, learning_path, t) ==
    IF RowsOf(table, dataId) # {}
    THEN {IF r.email = dataId
          THEN [r EXCEPT !.learningPath = learning_path,
                         !.expiresAt = t + CACHE_EXPIRATION]
          ELSE r : r \in table}
    ELSE table \cup {[email |-> dataId, learningPath |-> learning_path,
                      expiresAt |-> t + CACHE_EXPIRATION]}

\* a delete that removes nothing, to compare with
DeleteNothing(table, dataId) == table

\* deleteLearningData: prisma.learningData.delete; a missing row is only warned
DeleteLearningData(table, dataId) == {r \in table : r.email # dataId}

\* an expiry test that is one tick late, to compare with
ExpiredLate(r, t) == t > r.expiresAt + 1

\* record.expiresAt && new Date() > record.expiresAt
Expired(r, t) == t > r.expiresAt

(***************************************************************************)
(* Inputs of the exchange.                                                 *)
(***************************************************************************)
\* two e-mail addresses, and one whose local part holds an underscore
EmailA == <<"a", "@", "x">>
EmailB == <<"b", "@", "x">>
EmailU == <<"a", "_", "b", "@", "x">>

\* requestId = `${email}_${Date.now()}`, as the submission side builds it
Composite(email, stamp) == email \o <<"_">> \o stamp

Emails == {EmailA, EmailB}

\* uniqueness suffixes (timestamps) of request identifiers
Stamps == {<<"1">>, <<"2", "3">>}

CompositeIds ==
    {Composite(EmailA, <<"1">>), Composite(EmailA, <<"2", "3">>),
     Composite(EmailB, <<"1">>)}

\* a composite identifier with a second suffix
DoubleId == Composite(Composite(EmailA, <<"1">>), <<"1">>)

\* identifiers a poll or a delete may carry (None: the parameter is missing)
QueryIds == Emails \cup CompositeIds \cup {EmailU, DoubleId, None}

\* identifiers a delete may carry
DeleteIds == {EmailA, Composite(EmailB, <<"1">>), <<>>}

TitleSeqs == {<<"M1">>, <<"M2", NoTitle>>}

\* a callback payload (the engine's object after unwrapping)
Payload(shape, dataId, requestId, email, hasLD, titles) ==
    [shape |-> shape, dataId |-> dataId, requestId |-> requestId,
     topDataId |-> None, topRequestId |-> None,
     email |-> email, hasLearningData |-> hasLD, titles |-> titles,
     ldEmail |-> None, psEmail |-> None, psContactEmail |-> None]

\* {dataId: "<email>_<digits>", learningData: {learning_path: [...]}}
DataIdOnlyPayload(dataId, titles) ==
    Payload("object", dataId, None, None, TRUE, titles)

Payloads ==
    {DataIdOnlyPayload(d, ts) :
        d \in {Composite(EmailA, <<"1">>), Composite(EmailB, <<"1">>)},
        ts \in TitleSeqs}
    \cup {Payload("object", d, None, e, TRUE, ts) :
            d \in {None, Composite(EmailA, <<"1">>)},
            e \in Emails, ts \in TitleSeqs}
    \cup {Payload("object", Composite(EmailA, <<"2", "3">>), None, EmailA, TRUE, <<"M1">>),
          Payload("array", Composite(EmailB, <<"1">>), None, EmailA, TRUE, <<"M1">>),
          Payload("wrapped", None, Composite(EmailB, <<"1">>), EmailA, TRUE, <<"M1">>),
          Payload("object", Composite(EmailA, <<"1">>), None, <<"a">>, TRUE, <<"M1">>),
          Payload("object", Composite(EmailA, <<"1">>), None, <<>>, TRUE, <<"M1">>),
          Payload("object", Composite(EmailA, <<"1">>), None, EmailA, TRUE, <<>>),
          Payload("object", Composite(EmailA, <<"1">>), None, EmailA, FALSE, <<>>)}

\* the payload p as the engine's HTTP node sends it: {dataId, requestId, body: p}
Wrapped(topDataId, topRequestId, p) ==
    [p EXCEPT !.shape = "wrapped", !.topDataId = topDataId,
              !.topRequestId = topRequestId]

\* the payload p with e-mail addresses in learningData and its profile_summary
WithNestedEmails(ldEmail, psEmail, psContactEmail, p) ==
    [p EXCEPT !.ldEmail = ldEmail, !.psEmail = psEmail,
              !.psContactEmail = psContactEmail]

\* payloads that carry identifiers in several places at once
ResolvePayloads ==
    {Payload("object", DoubleId, None, EmailA, TRUE, <<"M1">>),
     Payload("object", Composite(EmailA, <<"1">>), Composite(EmailB, <<"1">>),
             EmailB, TRUE, <<"M1">>),
     Wrapped(Composite(EmailB, <<"1">>), None,
             Payload("object", None, Composite(EmailA, <<"2", "3">>), EmailA,
                     TRUE, <<"M1">>)),
     Payload("object", None, Composite(EmailB, <<"1">>), EmailA, TRUE, <<"M1">>),
     Wrapped(None, Composite(EmailB, <<"1">>),
             Payload("object", None, None, EmailA, TRUE, <<"M1">>)),
     WithNestedEmails(EmailB, EmailB, EmailB,
             Payload("object", None, None, EmailA, TRUE, <<"M1">>)),
     WithNestedEmails(EmailB, EmailB, EmailB,
             Payload("object", None, None, <<>>, TRUE, <<"M1">>))}

\* identifiers a poll may carry after such a callback
ResolveQueryIds ==
    {EmailA, EmailB, Composite(EmailA, <<"1">>), Composite(EmailB, <<"1">>), DoubleId}

(***************************************************************************)
(* The exchange's handlers.                                                *)
(***************************************************************************)
NoPayload == Payload("none", None, None, None, FALSE, <<>>)

\* what a handler answered: note is the handler's log line for an expired row,
\* replaced the learning path of the row an accepted callback overwrote
Response(op, id, p, status, dataId, path, note, replaced) ==
    [op |-> op, id |-> id, payload |-> p, status |-> status,
     dataId |-> dataId, learning_path |-> path, note |-> note,
     replaced |-> replaced]

NoResponse == Response("none", None, NoPayload, 0, None, <<>>, "", <<>>)

NotLive == [live |-> FALSE, time |-> 0, learning_path |-> <<>>]

HistOf(k) == IF k \in DOMAIN hist THEN hist[k] ELSE NotLive

Forget(k) == [x \in DOMAIN hist \ {k} |-> hist[x]]

ExchangeAtRest ==
    /\ db = {}
    /\ evicting = {}
    /\ hist = <<>>
    /\ lastResp = NoResponse

\* POST /api/learning-callback
Callback(p) ==
    LET o == PostOutcome(p, now)
        before == RowsOf(db, o.dataId)
    IN  /\ db' = IF o.store
                 THEN StoreLearningData(db, o.dataId, o.learning_path, now)
                 ELSE db
        /\ hist' = IF o.store
                   THEN (o.dataId :> [live |-> TRUE, time |-> now,
                                      learning_path |-> o.learning_path]) @@ hist
                   ELSE hist
        /\ \E old \in IF o.store /\ before # {}
                      THEN {r.learningPath : r \in before} ELSE {<<>>} :
              lastResp' = Response("POST", None, p, o.status, o.dataId,
                                   o.learning_path, "", old)
        /\ UNCHANGED <<now, evicting>>

\* GET /api/learning-callback?dataId=..., up to the answer of findUnique: a
\* missing parameter, no row, a live row, or an expired row whose delete is
\* awaited before the handler answers
Poll(rawDataId) ==
    LET dataId == ExtractEmailFromRequestId(rawDataId)
        rows   == RowsOf(db, dataId)
    IN  IF ~NonEmptyString(rawDataId)
        THEN /\ lastResp' = Response("GET", rawDataId, NoPayload, 400, None,
                                     <<>>, "", <<>>)
             /\ UNCHANGED <<now, db, evicting, hist>>
        ELSE IF rows = {}
        THEN /\ lastResp' = Response("GET", rawDataId, NoPayload, 404, dataId,
                                     <<>>, "", <<>>)
             /\ UNCHANGED <<now, db, evicting, hist>>
        ELSE \E record \in rows :
                IF Expired(record, now)
                THEN /\ evicting' = evicting \cup {dataId}
                     /\ UNCHANGED <<now, db, hist, lastResp>>
                ELSE /\ lastResp' = Response("GET", rawDataId, NoPayload, 200,
                                             record.email, record.learningPath,
                                             "", <<>>)
                     /\ UNCHANGED <<now, db, evicting, hist>>

\* the rest of a GET that found an expired row: deleteLearningData, then 404
PollEvict(dataId) ==
    /\ dataId \in evicting
    /\ evicting' = evicting \ {dataId}
    /\ db' = DeleteLearningData(db, dataId)
    /\ hist' = Forget(dataId)
    /\ lastResp' = Response("GET", dataId, NoPayload, 404, dataId, <<>>,
                            "Data expired in DB", <<>>)
    /\ UNCHANGED now

\* DELETE /api/learning-callback?dataId=...
Delete(rawDataId) ==
    LET dataId == ExtractEmailFromRequestId(rawDataId)
    IN  IF ~NonEmptyString(rawDataId)
        THEN /\ lastResp' = Response("DELETE", rawDataId, NoPayload, 400, None,
                                     <<>>, "", <<>>)
             /\ UNCHANGED <<now, db, evicting, hist>>
        ELSE /\ db' = DeleteLearningData(db, dataId)
             /\ hist' = Forget(dataId)
             /\ lastResp' = Response("DELETE", rawDataId, NoPayload, 200, dataId,
                                     <<>>, "", <<>>)
             /\ UNCHANGED <<now, evicting>>

\* the clock advances; the response just observed is in the past
Tick ==
    /\ now < MaxTime
    /\ now' = now + 1
    /\ lastResp' = NoResponse
    /\ UNCHANGED <<db, evicting, hist>>

ExchangeStep ==
    \/ \E p \in Payloads : Callback(p)
    \/ \E id \in QueryIds : Poll(id)
    \/ \E k \in evicting : PollEvict(k)
    \/ \E id \in DeleteIds : Delete(id)
    \/ Tick

\* the exchange driven by callbacks that carry several identifiers
ResolveStep ==
    \/ \E p \in ResolvePayloads : Callback(p)
    \/ \E id \in ResolveQueryIds : Poll(id)
    \/ \E k \in evicting : PollEvict(k)
    \/ Delete(Composite(EmailA, <<"1">>))
    \/ Tick

\* the first request of an e-mail address and a second one, made later
FirstStamp == <<"1">>
SecondStamp == <<"2", "3">>

\* callbacks of the engine for first requests only
FirstPayloads ==
    {Payload("object", Composite(e, FirstStamp), None, e, TRUE, ts) :
        e \in Emails, ts \in TitleSeqs}

\* the exchange with callbacks for first requests and polls of both requests
SharingStep ==
    \/ \E p \in FirstPayloads : Callback(p)
    \/ \E e \in Emails, stamp \in Stamps : Poll(Composite(e, stamp))
    \/ \E k \in evicting : PollEvict(k)
    \/ Delete(Composite(EmailB, SecondStamp))
    \/ Tick

\* an identifier without an e-mail address in it
PlainId == <<"r", "1">>

\* callbacks with a learning path: with no e-mail address anywhere, with an
\* identifier or an e-mail field that holds no "@", and with a valid e-mail
KeylessPayloads ==
    {Payload("object", None, None, None, TRUE, <<"M1">>),
     Payload("object", PlainId, None, None, TRUE, <<"M1">>),
     Payload("object", None, PlainId, <<"a">>, TRUE, <<"M1">>),
     Wrapped(PlainId, None, Payload("object", None, None, <<>>, TRUE, <<"M1">>))}
    \cup {Payload("object", None, None, EmailA, TRUE, ts) : ts \in TitleSeqs}

KeylessQueryIds == {SyntheticId(t) : t \in 0..MaxTime} \cup {PlainId, EmailA}

\* the exchange driven by callbacks that carry no e-mail address
KeylessStep ==
    \/ \E p \in KeylessPayloads : Callback(p)
    \/ \E id \in KeylessQueryIds : Poll(id)
    \/ \E k \in evicting : PollEvict(k)
    \/ Delete(EmailA)
    \/ Tick

(***************************************************************************)
(* The resource cache (CacheStore).  Its clock counts seconds.             *)
(***************************************************************************)
\* what get returns for a missing or expired entry
Null == "null"

\* a set that keeps an entry already stored, to compare with
CacheSetFirstWins(store, key, value, ttlSec, t) ==
    store @@ (key :> [value |-> value, expiresAt |-> t + ttlSec])

\* set(key, value, ttlSec)
CacheSet(store, key, value, ttlSec, t) ==
    (key :> [value |-> value, expiresAt |-> t + ttlSec]) @@ store

\* an entry that never goes stale, to compare with
StaleNever(entry, t) == FALSE

\* Date.now() > entry.expiresAt
Stale(entry, t) == t > entry.expiresAt

\* the store after get(key): an expired entry is deleted
CacheGetStore(store, key, t) ==
    IF key \in DOMAIN store /\ Stale(store[key], t)
    THEN [k \in DOMAIN store \ {key} |-> store[k]]
    ELSE store

\* what get(key) returns
CacheGetValue(store, key, t) ==
    IF key \notin DOMAIN store THEN Null
    ELSE IF Stale(store[key], t) THEN Null
    ELSE store[key].value

\* a cache that never hits, to compare with
CacheHasNever(store, key, t) == FALSE

\* get(key) returns an entry's value rather than null
CacheHas(store, key, t) == key \in DOMAIN store /\ ~Stale(store[key], t)

\* size()
CacheSize(store) == Cardinality(DOMAIN store)

CacheKeys == {"k1", "k2"}

CacheValues == {"v1", "v2"}

CacheCall(op, key, result) == [op |-> op, key |-> key, result |-> result]

NoCacheCall == CacheCall("none", "", Null)

CacheAtRest ==
    /\ cache = <<>>
    /\ sets = <<>>
    /\ lastCache = NoCacheCall

CSet(key, value, ttlSec) ==
    /\ cache' = CacheSet(cache, key, value, ttlSec, now)
    /\ sets' = (key :> [value |-> value, ttl |-> ttlSec, time |-> now]) @@ sets
    /\ lastCache' = CacheCall("set", key, Null)
    /\ UNCHANGED now

CGet(key) ==
    /\ cache' = CacheGetStore(cache, key, now)
    /\ lastCache' = CacheCall("get", key, CacheGetValue(cache, key, now))
    /\ UNCHANGED <<now, sets>>

CClear ==
    /\ cache' = <<>>
    /\ sets' = <<>>
    /\ lastCache' = CacheCall("clear", "", Null)
    /\ UNCHANGED now

\* the clock advances; the call just observed is in the past
CTick ==
    /\ now < MaxCacheTime
    /\ now' = now + 1
    /\ lastCache' = NoCacheCall
    /\ UNCHANGED <<cache, sets>>

CacheStep ==
    \/ \E k \in CacheKeys, v \in CacheValues, ttl \in 0..MaxTtl : CSet(k, v, ttl)
    \/ \E k \in CacheKeys : CGet(k)
    \/ CClear
    \/ CTick

(***************************************************************************)
(* The rate limiter.  Its clock counts ticks of 60 seconds.                *)
(***************************************************************************)
\* maxWindowSize of cleanupRateLimiter: 120 * 1000 ms
CleanupWindow == 2

\* timestamps.filter(ts => now - ts < windowSec * 1000)
InWindow(timestamps, windowSec, t) ==
    SelectSeq(timestamps, LAMBDA ts : t - ts < windowSec)

TimestampsOf(counts, id) == IF id \in DOMAIN counts THEN counts[id] ELSE <<>>

\* a limit test that is off by one, to compare with
LimitReachedLate(filtered, limit) == Len(filtered) > limit

\* filtered.length >= limit
LimitReached(filtered, limit) == Len(filtered) >= limit

\* what checkRateLimit(identifier, limit, windowSec) returns
RateLimitAllows(counts, id, limit, windowSec, t) ==
    ~LimitReached(InWindow(TimestampsOf(counts, id), windowSec, t), limit)

\* a limiter that records denied calls too, to compare with
RateLimitCountsAll(counts, id, limit, windowSec, t) ==
    (id :> Append(InWindow(TimestampsOf(counts, id), windowSec, t), t)) @@ counts

\* the map after checkRateLimit: a missing key is created empty; only an
\* allowed call stores the filtered list with the new timestamp
RateLimitCounts(counts, id, limit, windowSec, t) ==
    LET filtered == InWindow(TimestampsOf(counts, id), windowSec, t)
    IN  IF LimitReached(filtered, limit)
        THEN (id :> TimestampsOf(counts, id)) @@ counts
        ELSE (id :> Append(filtered, t)) @@ counts

\* cleanupRateLimiter: drop old timestamps, and keys left without any
CleanupRateLimiter(counts, t) ==
    LET kept(id) == InWindow(counts[id], CleanupWindow, t)
    IN  [id \in {i \in DOMAIN counts : Len(kept(i)) > 0} |-> kept(id)]

Identifiers == {"ip1", "ip2"}

RateAtRest ==
    /\ requestCounts = <<>>
    /\ swept = FALSE
    /\ calls = <<>>

CheckRateLimit(id) ==
    /\ Len(calls) < MaxCalls
    /\ requestCounts' = RateLimitCounts(requestCounts, id, rlLimit, rlWindow, now)
    /\ calls' = Append(calls,
                  [id |-> id, time |-> now,
                   ok |-> RateLimitAllows(requestCounts, id, rlLimit, rlWindow, now)])
    /\ UNCHANGED <<now, rlLimit, rlWindow, swept>>

\* the hourly sweep fires (once within the clock's span)
Sweep ==
    /\ ~swept
    /\ swept' = TRUE
    /\ requestCounts' = CleanupRateLimiter(requestCounts, now)
    /\ UNCHANGED <<now, rlLimit, rlWindow, calls>>

RTick ==
    /\ now < MaxRateTime
    /\ now' = now + 1
    /\ UNCHANGED <<requestCounts, rlLimit, rlWindow, swept, calls>>

RateStep ==
    \/ \E id \in Identifiers : CheckRateLimit(id)
    \/ Sweep
    \/ RTick


(***************************************************************************)
(* The summarize handler (POST /api/summarize).  Its clock counts ticks    *)
(* of 60 seconds; back-off delays are recorded in milliseconds.            *)
(***************************************************************************)
RATE_LIMIT_REQUESTS == 10

\* 60 seconds
RATE_LIMIT_WINDOW_SEC == 1

\* SUMMARY_CACHE_TTL_SEC, configured to 60 seconds
CACHE_TTL_SEC == 1

\* MAX_TRANSCRIPT_CHARS, configured to 21 characters
MAX_TRANSCRIPT_CHARS == 21

\* callGeminiAPI(systemPrompt, userPrompt, retries = 2)
Retries == 2

\* c repeated n times
Rep(c, n) == [i \in 1..n |-> c]

\* transcript.trim()
RECURSIVE Trim(_)
Trim(s) ==
    IF Len(s) = 0 THEN s
    ELSE IF Head(s) = " " THEN Trim(Tail(s))
    ELSE IF s[Len(s)] = " " THEN Trim(SubSeq(s, 1, Len(s) - 1))
    ELSE s

\* truncated.lastIndexOf('.'), 0-based, -1 when there is none
LastIndexOf(s, c) ==
    IF ~Includes(s, c) THEN -1
    ELSE (CHOOSE i \in 1..Len(s) :
              s[i] = c /\ \A j \in (i + 1)..Len(s) : s[j] # c) - 1

\* a truncation that cuts at the maximum whatever the text, to compare with
TruncatePlain(transcript, maxChars) ==
    IF transcript = None \/ Len(transcript) <= maxChars
    THEN [transcript |-> transcript, isTruncated |-> FALSE]
    ELSE [transcript |-> SubSeq(transcript, 1, maxChars), isTruncated |-> TRUE]

\* a truncation that never cuts, to compare with
TruncateNever(transcript, maxChars) ==
    [transcript |-> transcript, isTruncated |-> FALSE]

\* truncateTranscript(transcript, maxChars)
TruncateTranscript(transcript, maxChars) ==
    IF transcript = None \/ Len(transcript) <= maxChars
    THEN [transcript |-> transcript, isTruncated |-> FALSE]
    ELSE LET truncated  == SubSeq(transcript, 1, maxChars)
             lastPeriod == LastIndexOf(truncated, ".")
         IN  [transcript |-> IF 10 * lastPeriod > 9 * maxChars
                             THEN SubSeq(truncated, 1, lastPeriod + 1)
                             ELSE truncated,
              isTruncated |-> TRUE]

\* generateCacheKey(videoId)
GenerateCacheKey(videoId) == "transcript_" \o videoId

\* getClientIp(req)
GetClientIp(req) ==
    IF req.xForwardedFor # "" THEN req.xForwardedFor
    ELSE IF req.xRealIp # "" THEN req.xRealIp
    ELSE IF req.remoteAddress # "" THEN req.remoteAddress
    ELSE "unknown"

\* transcript && typeof transcript === 'string' && transcript.trim().length > 0
HasTranscript(req) == req.transcript # None /\ Len(Trim(req.transcript)) > 0

\* metadata && typeof metadata === 'object'
HasMetadata(req) == req.metadata

\* A model text is a sequence of tokens: "{" and "}", "s" for the member
\* "summary":"s1", "7" for a number and "w" for a word of prose.
\* The index after the object whose members start at i, or 0 if the text
\* has no well-formed object there; a nested object stands for a member
\* whose value it is.
RECURSIVE AfterMembers(_, _)
AfterMembers(text, i) ==
    IF i > Len(text) THEN 0
    ELSE IF text[i] = "}" THEN i + 1
    ELSE IF text[i] = "s" THEN AfterMembers(text, i + 1)
    ELSE IF text[i] = "{"
    THEN LET j == AfterMembers(text, i + 1)
         IN  IF j = 0 THEN 0 ELSE AfterMembers(text, j)
    ELSE 0

\* JSON.parse(text) does not throw: the text is one number or one object
IsJson(text) ==
    \/ text = <<"7">>
    \/ Len(text) >= 2 /\ text[1] = "{" /\ AfterMembers(text, 2) = Len(text) + 1

\* the number of objects open before index i
RECURSIVE Depth(_, _)
Depth(text, i) ==
    IF i <= 1 THEN 0
    ELSE Depth(text, i - 1)
         + (IF text[i - 1] = "{" THEN 1 ELSE IF text[i - 1] = "}" THEN -1 ELSE 0)

\* JSON.parse(text) for a text it accepts: "s1" stands for an object with the
\* member summary, "{}" for one without it, "7" for the number
JsonParse(text) ==
    IF text = <<"7">> THEN "7"
    ELSE IF \E i \in 1..Len(text) : text[i] = "s" /\ Depth(text, i) = 1 THEN "s1"
    ELSE "{}"

NoMatch == <<"no match">>

\* an extraction that ends the block at its first closing brace, to compare with
MatchShortest(text) ==
    IF \E i \in 1..Len(text) : text[i] = "{" /\ \E j \in (i + 1)..Len(text) : text[j] = "}"
    THEN LET first == CHOOSE i \in 1..Len(text) :
                          text[i] = "{" /\ \A k \in 1..(i - 1) : text[k] # "{"
             close == CHOOSE j \in (first + 1)..Len(text) :
                          text[j] = "}" /\ \A k \in (first + 1)..(j - 1) : text[k] # "}"
         IN  SubSeq(text, first, close)
    ELSE NoMatch

\* text.match(/\{[\s\S]*\}/): from the first "{" to the last "}" after it
Match(text) ==
    IF \E i \in 1..Len(text) : text[i] = "{" /\ \E j \in (i + 1)..Len(text) : text[j] = "}"
    THEN LET first == CHOOSE i \in 1..Len(text) :
                          text[i] = "{" /\ \A k \in 1..(i - 1) : text[k] # "{"
             last  == CHOOSE j \in 1..Len(text) :
                          text[j] = "}" /\ \A k \in (j + 1)..Len(text) : text[k] # "}"
         IN  SubSeq(text, first, last)
    ELSE NoMatch

\* extractJSON(text): the parsed value, or null
ExtractJSON(text) ==
    IF Len(text) = 0 THEN Null
    ELSE IF IsJson(text) THEN JsonParse(text)
    ELSE LET jsonMatch == Match(text)
         IN  IF jsonMatch = NoMatch THEN Null
             ELSE IF IsJson(jsonMatch) THEN JsonParse(jsonMatch)
             ELSE Null

\* parseGeminiResponse(apiResponse)
ParseGeminiResponse(apiResponse) ==
    LET parsed == ExtractJSON(apiResponse.text)
    IN  IF parsed = Null
        THEN [success |-> FALSE, summary |-> "",
              error |-> "Could not parse JSON from Gemini response"]
        ELSE [success |-> TRUE,
              summary |-> IF parsed = "s1" THEN parsed ELSE "Unable to generate summary",
              error |-> ""]

\* a back-off that does not grow, to compare with
BackoffFlat(attempt) == 1000

\* the delay before the attempt after `attempt`: Math.pow(2, attempt) * 1000
Backoff(attempt) == (2 ^ attempt) * 1000

\* the error callGeminiAPI throws for a response that is not ok
UpstreamError(status) ==
    CASE status = 429 -> "Rate limited by Gemini API"
      [] status = 401 -> "Invalid Gemini API key"
      [] status = 403 -> "Gemini API quota exceeded"
      [] OTHER        -> "Gemini API error"

\* the handler's catch block: the status for an error message
MapError(message) ==
    CASE message = "Rate limited by Gemini API" -> 429
      [] message = "Invalid Gemini API key"     -> 500
      [] message = "Gemini API quota exceeded"  -> 503
      [] OTHER                                  -> 500

(***************************************************************************)
(* Inputs of the summarize handler.                                        *)
(***************************************************************************)
\* a transcript within the maximum
ShortTranscript == <<"a", "b", ".">>

\* longer than the maximum, with a period at index 19 (beyond 90% of 21)
LongTranscript == Rep("a", 19) \o <<".">> \o Rep("b", 4)

\* longer than the maximum and blank
BlankTranscript == Rep(" ", MAX_TRANSCRIPT_CHARS + 1)

SumRequest(method, videoId, transcript, title, metadata) ==
    [method |-> method, videoId |-> videoId, transcript |-> transcript,
     title |-> title, videoUrl |-> "https://youtu.be/x", metadata |-> metadata,
     xForwardedFor |-> "ip1", xRealIp |-> "", remoteAddress |-> ""]

SumRequests ==
    {SumRequest("POST", "v1", LongTranscript, "T", FALSE),
     SumRequest("POST", "v2", ShortTranscript, "T", FALSE),
     SumRequest("POST", "v1", BlankTranscript, "T", TRUE),
     SumRequest("POST", "", LongTranscript, "T", FALSE),
     SumRequest("POST", "v1", LongTranscript, "", FALSE),
     SumRequest("POST", "v1", None, "T", FALSE),
     SumRequest("GET", "v1", ShortTranscript, "T", FALSE)}

\* what the generation endpoint may answer
\* json: response.json() parses the body; text: the model text in it
UpstreamAnswer(status, json, text) == [status |-> status, json |-> json, text |-> text]

Answers ==
    {UpstreamAnswer(200, TRUE, <<"{", "s", "}">>),
     UpstreamAnswer(200, TRUE, <<"w">>),
     UpstreamAnswer(429, TRUE, <<>>),
     UpstreamAnswer(401, TRUE, <<>>),
     UpstreamAnswer(403, TRUE, <<>>)}

\* answers whose body is not JSON (an HTML error page, an empty body), and
\* an error status the handler does not name
UpstreamAnswers ==
    Answers \cup {UpstreamAnswer(429, FALSE, <<>>), UpstreamAnswer(403, FALSE, <<>>),
                  UpstreamAnswer(200, FALSE, <<>>), UpstreamAnswer(500, TRUE, <<>>)}

\* a valid request of a video that has a transcript within the maximum
PlainRequest == SumRequest("POST", "v2", ShortTranscript, "T", FALSE)

\* the handler serves one request at a time
Slots == {"h1"}

NoSumRequest == SumRequest("", "", None, "", FALSE)

NoResult == [summary |-> "", isTruncated |-> FALSE, contentType |-> ""]

Idle ==
    [pc |-> "idle", req |-> NoSumRequest, attempt |-> 0, fetches |-> 0,
     delays |-> <<>>, answers |-> <<>>, content |-> None,
     isTruncated |-> FALSE, contentType |-> ""]

\* a response of the handler, with what the request cost upstream
SumResponse(req, status, cached, result, error, h) ==
    [req |-> req, status |-> status, cached |-> cached, result |-> result,
     error |-> error, fetches |-> h.fetches, delays |-> h.delays,
     answers |-> h.answers]

NoSumResponse == SumResponse(NoSumRequest, 0, FALSE, NoResult, "", Idle)

SummarizeAtRest ==
    /\ inflight = [s \in Slots |-> Idle]
    /\ lastSum = NoSumResponse
    /\ done = <<>>

Respond(s, status, cached, result, error, h) ==
    /\ lastSum' = SumResponse(h.req, status, cached, result, error, h)
    /\ inflight' = [inflight EXCEPT ![s] = Idle]

\* the handler from its entry to its first await (the fetch of attempt 0),
\* or to its response when it answers before calling upstream
Start(s, req) ==
    LET h        == [Idle EXCEPT !.req = req]
        clientIp == GetClientIp(req)
        allowed  == RateLimitAllows(requestCounts, clientIp, RATE_LIMIT_REQUESTS,
                                    RATE_LIMIT_WINDOW_SEC, now)
        counted  == RateLimitCounts(requestCounts, clientIp, RATE_LIMIT_REQUESTS,
                                    RATE_LIMIT_WINDOW_SEC, now)
        cacheKey == IF req.videoId # "" THEN GenerateCacheKey(req.videoId) ELSE ""
        key      == cacheKey \o "_summary"
        hit      == cacheKey # "" /\ CacheHas(cache, key, now)
        looked   == IF cacheKey # "" THEN CacheGetStore(cache, key, now) ELSE cache
        cut      == TruncateTranscript(req.transcript, MAX_TRANSCRIPT_CHARS)
    IN  /\ inflight[s].pc = "idle"
        /\ IF req.method # "POST"
           THEN /\ Respond(s, 405, FALSE, NoResult, "Method not allowed", h)
                /\ UNCHANGED <<requestCounts, cache>>
           ELSE /\ requestCounts' = counted
                /\ IF ~allowed
                   THEN /\ Respond(s, 429, FALSE, NoResult, "Rate limited", h)
                        /\ UNCHANGED cache
                   ELSE IF ~apiKeySet
                   THEN /\ Respond(s, 500, FALSE, NoResult,
                                   "Server configuration error. Contact administrator.", h)
                        /\ UNCHANGED cache
                   ELSE IF req.title = ""
                   THEN /\ Respond(s, 400, FALSE, NoResult, "Missing or invalid title", h)
                        /\ UNCHANGED cache
                   ELSE IF req.videoUrl = ""
                   THEN /\ Respond(s, 400, FALSE, NoResult, "Missing or invalid videoUrl", h)
                        /\ UNCHANGED cache
                   ELSE IF ~HasTranscript(req) /\ ~HasMetadata(req)
                   THEN /\ Respond(s, 400, FALSE, NoResult,
                                   "Either transcript or metadata must be provided for summarization", h)
                        /\ UNCHANGED cache
                   ELSE /\ cache' = looked
                        /\ IF hit
                           THEN Respond(s, 200, TRUE, CacheGetValue(cache, key, now), "", h)
                           ELSE /\ inflight' = [inflight EXCEPT ![s] =
                                     [h EXCEPT
                                        !.pc = "fetch",
                                        !.fetches = 1,
                                        !.content = IF HasTranscript(req)
                                                    THEN cut.transcript ELSE None,
                                        !.isTruncated = HasTranscript(req) /\ cut.isTruncated,
                                        !.contentType = IF HasTranscript(req)
                                                        THEN "transcript" ELSE "metadata"]]
                                /\ lastSum' = NoSumResponse
        /\ UNCHANGED <<now, apiKeySet, done>>

\* callGeminiAPI gives up with `message`: the handler's catch block answers
Fail(s, h, message) ==
    /\ Respond(s, MapError(message), FALSE, NoResult, message, h)
    /\ UNCHANGED <<cache, done>>

\* the catch inside the retry loop: remember the error; before the last
\* attempt wait and go on, after it leave the loop and throw
CatchInLoop(s, h, message) ==
    IF h.attempt < Retries
    THEN /\ inflight' = [inflight EXCEPT ![s] =
                [h EXCEPT !.pc = "sleep",
                          !.delays = Append(h.delays, Backoff(h.attempt))]]
         /\ UNCHANGED <<lastSum, cache, done>>
    ELSE Fail(s, h, message)

\* the rest of the handler once callGeminiAPI has returned apiResponse
Finish(s, h, apiResponse) ==
    LET parseResult == ParseGeminiResponse(apiResponse)
        result   == [summary |-> parseResult.summary,
                     isTruncated |-> h.isTruncated,
                     contentType |-> h.contentType]
        cacheKey == IF h.req.videoId # "" THEN GenerateCacheKey(h.req.videoId) ELSE ""
    IN  IF ~parseResult.success
        THEN /\ Respond(s, 500, FALSE, NoResult, "Failed to process AI response", h)
             /\ UNCHANGED <<cache, done>>
        ELSE /\ cache' = IF cacheKey # ""
                         THEN CacheSet(cache, cacheKey \o "_summary", result,
                                       CACHE_TTL_SEC, now)
                         ELSE cache
             /\ done' = IF h.req.videoId # ""
                        THEN (h.req.videoId :> [at |-> now, result |-> result]) @@ done
                        ELSE done
             /\ Respond(s, 200, FALSE, result, "", h)

\* the generation endpoint answers the fetch of the current attempt
Answer(s, a) ==
    LET h == [inflight[s] EXCEPT !.answers = Append(@, a)]
    IN  /\ inflight[s].pc = "fetch"
        /\ IF ~a.json
           THEN CatchInLoop(s, h, "Unexpected token < in JSON at position 0")
           ELSE IF a.status = 200
           THEN Finish(s, h, a)
           ELSE IF a.status = 429 /\ h.attempt < Retries
           THEN /\ inflight' = [inflight EXCEPT ![s] =
                       [h EXCEPT !.pc = "sleep",
                                 !.delays = Append(h.delays, Backoff(h.attempt))]]
                /\ UNCHANGED <<lastSum, cache, done>>
           ELSE CatchInLoop(s, h, UpstreamError(a.status))
        /\ UNCHANGED <<now, apiKeySet, requestCounts>>

\* the back-off delay is over: the loop's next attempt fetches
Wake(s) ==
    /\ inflight[s].pc = "sleep"
    /\ inflight' = [inflight EXCEPT ![s] =
            [@ EXCEPT !.pc = "fetch", !.attempt = @ + 1, !.fetches = @ + 1]]
    /\ UNCHANGED <<now, apiKeySet, requestCounts, cache, lastSum, done>>

\* the clock advances; the response just observed is in the past
STick ==
    /\ now < MaxSumTime
    /\ now' = now + 1
    /\ lastSum' = NoSumResponse
    /\ UNCHANGED <<apiKeySet, requestCounts, cache, inflight, done>>

SummarizeStep ==
    \/ \E s \in Slots, req \in SumRequests : Start(s, req)
    \/ \E s \in Slots, a \in Answers : Answer(s, a)
    \/ \E s \in Slots : Wake(s)
    \/ STick

(***************************************************************************)
(* The components that are checked one call or one request at a time.     *)
(***************************************************************************)
NoCall == [pc |-> "none"]

CompAtRest ==
    /\ trunc = NoCall
    /\ submit = NoCall
    /\ poller = NoCall
    /\ errs = NoCall
    /\ lastApi = NoCall

(***************************************************************************)
(* truncateTranscript, called with any transcript and any maximum.         *)
(***************************************************************************)
\* a text of n characters with periods exactly at the positions in P
TextWithPeriods(n, P) == [i \in 1..n |-> IF i \in P THEN "." ELSE "a"]

\* the transcripts tried: every length, with at most two periods anywhere
Transcripts ==
    {TextWithPeriods(n, {i, j}) : n \in 1..MaxLen, i \in 1..MaxLen, j \in 1..MaxLen}
    \cup {TextWithPeriods(n, {}) : n \in 0..MaxLen}

\* truncateTranscript(transcript, maxChars) is called and returns
Truncate ==
    /\ trunc.pc = "call"
    /\ trunc' = [pc |-> "returned", transcript |-> trunc.transcript,
                 maxChars |-> trunc.maxChars,
                 result |-> TruncateTranscript(trunc.transcript, trunc.maxChars)]
    /\ UNCHANGED <<submit, poller, errs, lastApi>>

TruncateStep == Truncate

\* pieces of model text: prose, objects, a number, stray braces
Segments ==
    {<<"w">>, <<"{", "s", "}">>, <<"{", "}">>, <<"{", "{", "s", "}", "}">>,
     <<"7">>, <<"{">>, <<"}">>}

\* the texts made of up to n segments
RECURSIVE TextsOf(_)
TextsOf(n) ==
    IF n = 0 THEN {<<>>}
    ELSE LET shorter == TextsOf(n - 1)
         IN  shorter \cup {t \o g : t \in shorter, g \in Segments}

ModelTexts == TextsOf(MaxSegments)

\* one valid request, answered 200 with any of the texts
ParseStep ==
    \/ \E s \in Slots : Start(s, PlainRequest)
    \/ \E s \in Slots, text \in ModelTexts : Answer(s, UpstreamAnswer(200, TRUE, text))
    \/ STick

\* two requests being handled at once
TwoSlots == {"h1", "h2"}

\* requests for one video whose results differ: the first is truncated
SameVideoRequests ==
    {SumRequest("POST", "v1", LongTranscript, "T", FALSE),
     SumRequest("POST", "v1", ShortTranscript, "T", FALSE)}

\* concurrent requests for one video, each answered upstream with a summary
ConcurrentStep ==
    \/ \E s \in TwoSlots, req \in SameVideoRequests : Start(s, req)
    \/ \E s \in TwoSlots : Answer(s, UpstreamAnswer(200, TRUE, <<"{", "s", "}">>))
    \/ STick

\* one valid request and every kind of upstream answer
UpstreamStep ==
    \/ \E s \in Slots : Start(s, PlainRequest)
    \/ \E s \in Slots, a \in UpstreamAnswers : Answer(s, a)
    \/ \E s \in Slots : Wake(s)
    \/ STick

(***************************************************************************)
(* The submission endpoint (POST /api/learning) and the onboarding form's  *)
(* submit handler: each forwards the form data to the primary workflow     *)
(* webhook and, fire-and-forget, to a secondary one.                       *)
(***************************************************************************)
Sites == {"route", "form"}

\* the form data; "" is a field left empty
FormData(email, learningGoals) == [email |-> email, learningGoals |-> learningGoals]

SubmitPayloads ==
    {FormData("a@x", "goals"), FormData("b@x", "goals"),
     FormData("", "goals"), FormData("a@x", "")}

\* what the primary webhook answers: ok is response.ok, json the parsed body
\* ("" when the body is not JSON); rejected is a network error
WebhookAnswer(rejected, status, ok, json) ==
    [rejected |-> rejected, status |-> status, ok |-> ok, json |-> json]

PrimaryAnswers ==
    {WebhookAnswer(FALSE, 200, TRUE, "plan1"), WebhookAnswer(FALSE, 200, TRUE, "plan2"),
     WebhookAnswer(FALSE, 200, TRUE, ""), WebhookAnswer(FALSE, 500, FALSE, ""),
     WebhookAnswer(FALSE, 404, FALSE, ""), WebhookAnswer(TRUE, 0, FALSE, "")}

\* how the secondary webhook's fetch settles, if it ever does
SecondaryAnswers ==
    {WebhookAnswer(FALSE, 200, TRUE, ""), WebhookAnswer(FALSE, 500, FALSE, ""),
     WebhookAnswer(TRUE, 0, FALSE, "")}

NoAnswer == WebhookAnswer(FALSE, 0, FALSE, "")

\* the caller-visible outcome: for the route the HTTP status and body, for
\* the form (status 0) what the handler did
Reply(status, body) == [status |-> status, body |-> body]

NoReply == Reply(0, "")

\* !formData.email || !formData.learningGoals; the form's required fields
MissingFields(payload) == payload.email = "" \/ payload.learningGoals = ""

\* the secondary fetch settles and its handlers run, changing the request
\* state st into the result: a handler that throws into the response path
RethrowExtra(st, a) ==
    IF a.rejected \/ ~a.ok
    THEN [st EXCEPT !.secondary = "settled", !.pc = "done",
                    !.reply = Reply(500, "Failed to generate learning data")]
    ELSE [st EXCEPT !.secondary = "settled"]

\* the secondary fetch settles and its handlers run: the route warns about
\* a status that is not ok and about a rejection, the form about a rejection
ExtraSettled(st, a) ==
    [st EXCEPT !.secondary = "settled",
               !.extra = a,
               !.log = IF a.rejected
                       THEN Append(@, "Extra n8n webhook error")
                       ELSE IF ~a.ok /\ st.site = "route"
                       THEN Append(@, "Extra n8n webhook returned status")
                       ELSE @]

Submitting(site, payload) ==
    [pc |-> "primary", site |-> site, payload |-> payload, primary |-> NoAnswer,
     secondary |-> IF site = "form" THEN "pending" ELSE "idle",
     extra |-> NoAnswer, reply |-> NoReply, log |-> <<>>]

\* the handler is entered: a request with missing fields is answered at once;
\* otherwise the primary fetch is started (the form starts both fetches)
Submit(site, payload) ==
    /\ submit = NoCall
    /\ submit' =
          IF MissingFields(payload)
          THEN [Submitting(site, payload) EXCEPT
                   !.pc = "done", !.secondary = "idle",
                   !.reply = IF site = "route"
                             THEN Reply(400, "Missing required fields: email, learningGoals")
                             ELSE Reply(0, "validation errors shown")]
          ELSE Submitting(site, payload)
    /\ UNCHANGED <<trunc, poller, errs, lastApi>>

\* the primary fetch settles
PrimarySettles(a) ==
    /\ submit # NoCall
    /\ submit.pc = "primary"
    /\ submit' =
          LET st == [submit EXCEPT !.primary = a]
          IN  IF st.site = "route"
              THEN IF a.rejected
                   THEN [st EXCEPT !.pc = "done",
                                   !.reply = Reply(500, "Failed to generate learning data")]
                   ELSE IF ~a.ok
                   THEN [st EXCEPT !.pc = "done", !.secondary = "pending",
                                   !.reply = Reply(a.status, "n8n webhook failed with status")]
                   ELSE [st EXCEPT !.pc = "body", !.secondary = "pending"]
              ELSE IF a.rejected \/ ~a.ok
                   THEN [st EXCEPT !.pc = "done",
                                   !.reply = Reply(0, "Failed to submit form. Please try again.")]
                   ELSE [st EXCEPT !.pc = "done",
                                   !.reply = Reply(0, "handleSubmit called")]
    /\ UNCHANGED <<trunc, poller, errs, lastApi>>

\* the route has read the primary response's body: await defaultResponse.json()
BodyRead ==
    /\ submit # NoCall
    /\ submit.pc = "body"
    /\ submit' = [submit EXCEPT
                     !.pc = "done",
                     !.reply = IF submit.primary.json = ""
                               THEN Reply(500, "Failed to generate learning data")
                               ELSE Reply(200, submit.primary.json)]
    /\ UNCHANGED <<trunc, poller, errs, lastApi>>

\* the secondary fetch settles, at any time after it was started
SecondarySettles(a) ==
    /\ submit # NoCall
    /\ submit.secondary = "pending"
    /\ submit' = ExtraSettled(submit, a)
    /\ UNCHANGED <<trunc, poller, errs, lastApi>>

SubmitStep ==
    \/ \E site \in Sites, payload \in SubmitPayloads : Submit(site, payload)
    \/ \E a \in PrimaryAnswers : PrimarySettles(a)
    \/ BodyRead
    \/ \E a \in SecondaryAnswers : SecondarySettles(a)

(***************************************************************************)
(* The client's polling loop: handleSubmit and pollForLearningData, in the *)
(* page's first variant ("page") and its later one ("later").              *)
(***************************************************************************)
Variants == {"page", "later"}

\* the default of pollForLearningData's maxAttempts parameter
maxAttempts(variant) == IF variant = "page" THEN 60 ELSE 120

\* the setTimeout between two polls, in milliseconds
PollInterval(variant) == IF variant = "page" THEN 2000 ELSE 1000

\* what a poll's fetch gives: failed is a network error; body says what
\* response.json() yields: a plan with modules, an object whose learning_path
\* is [], an object without learning_path, or a SyntaxError ("notJson")
PollResponse(failed, status, body) ==
    [failed |-> failed, status |-> status, body |-> body]

PollResponses ==
    {PollResponse(FALSE, 200, b) : b \in {"plan1", "plan2", "emptyPath", "noPath", "notJson"}}
    \cup {PollResponse(FALSE, st, "error") : st \in {404, 500, 503}}
    \cup {PollResponse(TRUE, 0, "")}

\* response.ok
Ok(r) == ~r.failed /\ r.status >= 200 /\ r.status <= 299

\* a loop that retries while the attempts have not passed the limit, to compare with
RetryOnceMore(attempts, variant) == attempts <= maxAttempts(variant)

\* attempts < maxAttempts
MayRetry(attempts, variant) == attempts < maxAttempts(variant)

\* the poll hands the body over as the plan: data && data.learning_path, and
\* in the later variant also data.learning_path.length > 0
PlanReceived(variant, r) ==
    /\ Ok(r)
    /\ IF variant = "page"
       THEN r.body \in {"plan1", "plan2", "emptyPath"}
       ELSE r.body \in {"plan1", "plan2"}

defaultLearningData == "default"

\* handleSubmit up to the first fetch of poll(): attempts++ has run
HandleSubmit(variant) ==
    /\ poller = NoCall
    /\ poller' = [pc |-> "fetching", variant |-> variant, attempts |-> 1,
                  waited |-> 0, screen |-> "loading", isLoadingData |-> TRUE,
                  learningData |-> defaultLearningData, received |-> FALSE]
    /\ UNCHANGED <<trunc, submit, errs, lastApi>>

\* the fetch of poll() settles with r; poll() either returns the data, or
\* starts the timer, or gives up, and on a return handleSubmit runs to its end
PollSettles(r) ==
    /\ poller # NoCall
    /\ poller.pc = "fetching"
    /\ poller' =
          IF PlanReceived(poller.variant, r)
          THEN [poller EXCEPT !.pc = "finished", !.learningData = r.body,
                              !.received = TRUE, !.screen = "dashboard",
                              !.isLoadingData = FALSE]
          ELSE IF MayRetry(poller.attempts, poller.variant)
          THEN [poller EXCEPT !.pc = "waiting"]
          ELSE [poller EXCEPT !.pc = "finished",
                              !.learningData = defaultLearningData,
                              !.screen = "dashboard", !.isLoadingData = FALSE]
    /\ UNCHANGED <<trunc, submit, errs, lastApi>>

\* the timer fires and poll() is entered again: attempts++, then the fetch
TimerFires ==
    /\ poller # NoCall
    /\ poller.pc = "waiting"
    /\ poller' = [poller EXCEPT !.pc = "fetching", !.attempts = @ + 1,
                                !.waited = @ + PollInterval(poller.variant)]
    /\ UNCHANGED <<trunc, submit, errs, lastApi>>

PollStep ==
    \/ \E variant \in Variants : HandleSubmit(variant)
    \/ \E r \in PollResponses : PollSettles(r)
    \/ TimerFires

(***************************************************************************)
(* The error responses of the endpoints: what each catch block and each    *)
(* failure branch puts in the body, in development mode and outside it.    *)
(***************************************************************************)
\* a member that is left out of the JSON body
Undefined == "undefined"

Endpoints == {"summarize", "parse", "submission", "callback", "poll", "delete"}

\* error.message of what each handler may catch
MessagesOf(endpoint) ==
    CASE endpoint = "summarize"  -> {"Rate limited by Gemini API", "Gemini API quota exceeded",
                                     "Unexpected token < in JSON at position 0"}
      [] endpoint = "parse"      -> {"Could not parse JSON from Gemini response",
                                     "No candidates in Gemini response"}
      [] endpoint = "submission" -> {"fetch failed", "Unexpected token < in JSON at position 0"}
      [] endpoint = "callback"   -> {"Invalid data structure from n8n",
                                     "Can't reach database server",
                                     "Unexpected token < in JSON at position 0"}
      [] endpoint = "poll"       -> {"Can't reach database server"}
      [] endpoint = "delete"     -> {"Can't reach database server"}

ErrorBody(endpoint, status, error, details) ==
    [endpoint |-> endpoint, status |-> status, error |-> error, details |-> details]

\* process.env.NODE_ENV === 'development' ? detail : undefined
DevelopmentOnly(development, detail) == IF development THEN detail ELSE Undefined

\* the summarize handler's catch block
SummarizeCatch(development, message) ==
    ErrorBody("summarize", MapError(message),
              CASE MapError(message) = 429 ->
                       "Gemini API rate limit reached. Please wait and try again."
                [] MapError(message) = 503 ->
                       "Service quota exceeded. Please try again later."
                [] OTHER -> "Failed to generate summary. Please try again.",
              DevelopmentOnly(development, message))

\* the summarize handler when parseGeminiResponse fails
SummarizeParseFailure(development, message) ==
    ErrorBody("summarize", 500, "Failed to process AI response",
              DevelopmentOnly(development, message))

\* POST /api/learning: the catch block
SubmissionCatch(development, message) ==
    ErrorBody("submission", 500, "Failed to generate learning data", message)

\* POST /api/learning-callback: the catch block
CallbackCatch(development, message) ==
    ErrorBody("callback", 500, "Failed to process learning data", message)

\* GET /api/learning-callback: the catch block
PollCatch(development, message) ==
    ErrorBody("poll", 500, "Failed to retrieve learning data", Undefined)

\* DELETE /api/learning-callback: the catch block
DeleteCatch(development, message) ==
    ErrorBody("delete", 500, "Failed to delete learning data", Undefined)

\* the body an endpoint sends when it catches an error with this message
CaughtBy(endpoint, development, message) ==
    CASE endpoint = "summarize"  -> SummarizeCatch(development, message)
      [] endpoint = "parse"      -> SummarizeParseFailure(development, message)
      [] endpoint = "submission" -> SubmissionCatch(development, message)
      [] endpoint = "callback"   -> CallbackCatch(development, message)
      [] endpoint = "poll"       -> PollCatch(development, message)
      [] endpoint = "delete"     -> DeleteCatch(development, message)

\* a handler catches an error and answers
Catch(endpoint, message) ==
    /\ errs # NoCall
    /\ Len(errs.sent) < MaxSent
    /\ errs' = [errs EXCEPT !.sent = Append(@, CaughtBy(endpoint, errs.development, message))]
    /\ UNCHANGED <<trunc, submit, poller, lastApi>>

ErrorStep ==
    \E endpoint \in Endpoints : \E message \in MessagesOf(endpoint) : Catch(endpoint, message)

(***************************************************************************)
(* The search, metadata and transcript endpoints, which share the cache    *)
(* with the summarize endpoint.  Each handler runs from its request to its *)
(* response; what the service it asks answers is an input of the step.     *)
(***************************************************************************)
\* [a-zA-Z0-9_-]
IdAlphabet ==
    {"a", "b", "c", "d", "e", "f", "g", "h", "i", "j", "k", "l", "m",
     "n", "o", "p", "q", "r", "s", "t", "u", "v", "w", "x", "y", "z",
     "A", "B", "C", "D", "E", "F", "G", "H", "I", "J", "K", "L", "M",
     "N", "O", "P", "Q", "R", "S", "T", "U", "V", "W", "X", "Y", "Z",
     "0", "1", "2", "3", "4", "5", "6", "7", "8", "9", "_", "-"}

\* the string made of the characters of a sequence
RECURSIVE Text(_)
Text(chars) == IF chars = <<>> THEN "" ELSE Head(chars) \o Text(Tail(chars))

\* /^[a-zA-Z0-9_-]{11}$/.test(videoId)
ValidVideoIdFormat(videoId) ==
    /\ Len(videoId) = 11
    /\ \A i \in 1..Len(videoId) : videoId[i] \in IdAlphabet

\* generateCacheKey(...args): the function has one parameter, videoId, and
\* further arguments of a call are dropped
KeyOfCall(args) == GenerateCacheKey(args[1])

\* cached.name, undefined when the object has no such property
Field(object, name) == IF name \in DOMAIN object THEN object[name] ELSE Undefined

ApiResponse(endpoint, input, status, cached, body, key) ==
    [endpoint |-> endpoint, input |-> input, status |-> status,
     cached |-> cached, body |-> body, key |-> key]

\* clock of the endpoints that only use the cache
ApiTick ==
    /\ now < MaxCacheTime
    /\ now' = now + 1
    /\ UNCHANGED <<cache, lastApi>>

\* an identifier of 11 characters that ends with "_summary", another
\* identifier, and one that is too short
SummaryLikeId == <<"a", "b", "c", "_", "s", "u", "m", "m", "a", "r", "y">>
OtherId == <<"d", "Q", "w", "4", "w", "9", "W", "g", "X", "c", "Q">>
ShortId == <<"a", "b", "c">>

VideoIds == {SummaryLikeId, OtherId, ShortId, None}

\* GET /api/transcript?videoId=...; fetched: "segments", "none" or "thrown"
Transcript(videoId, fetched) ==
    LET cacheKey == GenerateCacheKey(Text(videoId))
        looked   == CacheGetStore(cache, cacheKey, now)
        segments == "segments of " \o Text(videoId)
        entry    == [transcript |-> "text of " \o Text(videoId),
                     rawSegments |-> segments, method |-> "youtube-transcript"]
        Send(status, cached, body) ==
            lastApi' = ApiResponse("transcript", videoId, status, cached, body, cacheKey)
    IN  IF ~NonEmptyString(videoId)
        THEN /\ lastApi' = ApiResponse("transcript", videoId, 400, FALSE,
                              [error |-> "Missing or invalid videoId parameter"], "")
             /\ UNCHANGED cache
        ELSE IF ~ValidVideoIdFormat(videoId)
        THEN /\ lastApi' = ApiResponse("transcript", videoId, 400, FALSE,
                              [error |-> "Invalid YouTube video ID format"], "")
             /\ UNCHANGED cache
        ELSE IF CacheHas(cache, cacheKey, now)
        THEN /\ Send(200, TRUE,
                      LET cachedData == CacheGetValue(cache, cacheKey, now)
                      IN  [transcript |-> Field(cachedData, "transcript"),
                           rawSegments |-> Field(cachedData, "rawSegments"),
                           method |-> IF Field(cachedData, "method") = Undefined
                                      THEN "cached" ELSE cachedData.method])
             /\ UNCHANGED cache
        ELSE CASE fetched = "segments" ->
                    /\ cache' = CacheSet(looked, cacheKey, entry, CACHE_TTL_SEC, now)
                    /\ Send(200, FALSE, entry)
               [] fetched = "none" ->
                    /\ cache' = looked
                    /\ Send(200, FALSE, [transcript |-> "", rawSegments |-> "",
                                          method |-> "metadata-only"])
               [] fetched = "thrown" ->
                    /\ cache' = looked
                    /\ Send(500, FALSE,
                             [error |-> "Failed to fetch transcript. Please try again later."])

\* GET /api/youtube/metadata?videoId=...; fetched: "found", "missing" or "thrown"
Metadata(method, videoId, fetched) ==
    LET cacheKey == KeyOfCall(<<"metadata", Text(videoId)>>)
        looked   == CacheGetStore(cache, cacheKey, now)
        metadata == [videoId |-> Text(videoId), title |-> "title of " \o Text(videoId)]
        Send(status, cached, body) ==
            lastApi' = ApiResponse("metadata", videoId, status, cached, body, cacheKey)
    IN  IF method # "GET"
        THEN /\ lastApi' = ApiResponse("metadata", videoId, 405, FALSE,
                              [error |-> "Method not allowed"], "")
             /\ UNCHANGED cache
        ELSE IF ~NonEmptyString(videoId) \/ Len(videoId) < 10
        THEN /\ lastApi' = ApiResponse("metadata", videoId, 400, FALSE,
                              [error |-> "Invalid or missing videoId parameter"], "")
             /\ UNCHANGED cache
        ELSE IF CacheHas(cache, cacheKey, now)
        THEN /\ Send(200, TRUE, CacheGetValue(cache, cacheKey, now))
             /\ UNCHANGED cache
        ELSE CASE fetched = "found" ->
                    /\ cache' = CacheSet(looked, cacheKey, metadata, CACHE_TTL_SEC, now)
                    /\ Send(200, FALSE, metadata)
               [] fetched = "missing" ->
                    /\ cache' = looked
                    /\ Send(404, FALSE, [error |-> "Video not found"])
               [] fetched = "thrown" ->
                    /\ cache' = looked
                    /\ Send(500, FALSE, [error |-> "Failed to fetch video metadata"])

\* search queries, one of them blank, and filters as JSON.stringify writes them
Queries == {<<"q", "1">>, <<" ", "q", "2">>, <<" ">>}

FilterKeys == {"{}", "{\"minViews\":1000}"}

\* POST /api/youtube/search; searched: "results", "empty" or "error"
Search(method, query, filterKey, searched) ==
    LET searchQuery == Text(Trim(query))
        cacheKey == KeyOfCall(<<"youtube-search", searchQuery \o "_" \o filterKey>>)
        looked   == CacheGetStore(cache, cacheKey, now)
        input    == [query |-> searchQuery, filters |-> filterKey]
        searchResult == [query |-> searchQuery, filters |-> filterKey,
                         results |-> "videos for " \o searchQuery \o " " \o filterKey]
        Send(status, cached, body) ==
            lastApi' = ApiResponse("search", input, status, cached, body, cacheKey)
    IN  IF method # "POST"
        THEN /\ lastApi' = ApiResponse("search", input, 405, FALSE,
                              [error |-> "Method not allowed"], "")
             /\ UNCHANGED cache
        ELSE IF Len(Trim(query)) = 0
        THEN /\ lastApi' = ApiResponse("search", input, 400, FALSE,
                              [error |-> "Invalid input"], "")
             /\ UNCHANGED cache
        ELSE IF CacheHas(cache, cacheKey, now)
        THEN /\ Send(200, TRUE, CacheGetValue(cache, cacheKey, now))
             /\ UNCHANGED cache
        ELSE CASE searched = "results" ->
                    /\ cache' = CacheSet(looked, cacheKey, searchResult, CACHE_TTL_SEC, now)
                    /\ Send(200, FALSE, searchResult)
               [] searched = "empty" ->
                    /\ cache' = looked
                    /\ Send(200, FALSE, [searchResult EXCEPT !.results = ""])
               [] searched = "error" ->
                    /\ cache' = looked
                    /\ Send(500, FALSE, [error |-> "Search failed"])

SearchStep ==
    \/ \E method \in {"POST", "GET"}, query \in Queries, filterKey \in FilterKeys,
          searched \in {"results", "empty", "error"} :
            Search(method, query, filterKey, searched) /\ UNCHANGED now
    \/ ApiTick

MetadataStep ==
    \/ \E method \in {"GET", "POST"}, videoId \in VideoIds,
          fetched \in {"found", "missing", "thrown"} :
            Metadata(method, videoId, fetched) /\ UNCHANGED now
    \/ ApiTick

\* summarize requests whose videoId is a prefix of SummaryLikeId, or not
PrefixRequests ==
    {SumRequest("POST", "abc", ShortTranscript, "T", FALSE),
     SumRequest("POST", "v2", LongTranscript, "T", FALSE)}

TranscriptStep ==
    \E videoId \in VideoIds, fetched \in {"segments", "none", "thrown"} :
        Transcript(videoId, fetched) /\ UNCHANGED now

\* the summarize handler next to the transcript endpoint
SummaryStep ==
    \/ \E s \in Slots, req \in PrefixRequests : Start(s, req)
    \/ \E s \in Slots : Answer(s, UpstreamAnswer(200, TRUE, <<"{", "s", "}">>))
    \/ STick

(***************************************************************************)
(* The specifications: each component on its own, the others at rest.      *)
(***************************************************************************)
InitExchange ==
    /\ now = 0
    /\ ExchangeAtRest
    /\ CacheAtRest
    /\ RateAtRest /\ rlLimit = 1 /\ rlWindow = 1
    /\ SummarizeAtRest /\ apiKeySet = TRUE
    /\ CompAtRest

NextExchange == ExchangeStep /\ UNCHANGED <<cacheState, rateState, sumState, compState>>

SpecExchange == InitExchange /\ [][NextExchange]_vars

InitCache == InitExchange

NextCache == CacheStep /\ UNCHANGED <<exState, rateState, sumState, compState>>

SpecCache == InitCache /\ [][NextCache]_vars

InitRate ==
    /\ now = 0
    /\ ExchangeAtRest
    /\ CacheAtRest
    /\ RateAtRest /\ rlLimit \in 1..MaxLimit /\ rlWindow \in 1..MaxWindow
    /\ SummarizeAtRest /\ apiKeySet = TRUE
    /\ CompAtRest

NextRate == RateStep /\ UNCHANGED <<exState, cacheState, sumState, compState>>

SpecRate == InitRate /\ [][NextRate]_vars

InitSummarize ==
    /\ now = 0
    /\ ExchangeAtRest
    /\ CacheAtRest
    /\ RateAtRest /\ rlLimit = 1 /\ rlWindow = 1
    /\ SummarizeAtRest /\ apiKeySet \in BOOLEAN
    /\ CompAtRest

NextSummarize ==
    SummarizeStep /\ UNCHANGED <<exState, sets, lastCache, rlLimit, rlWindow, swept,
                                 calls, compState>>

SpecSummarize == InitSummarize /\ [][NextSummarize]_vars

\* every component at rest but those named
OthersAtRest ==
    /\ now = 0
    /\ ExchangeAtRest
    /\ CacheAtRest
    /\ RateAtRest /\ rlLimit = 1 /\ rlWindow = 1
    /\ SummarizeAtRest /\ apiKeySet = TRUE

othersState == <<now, exState, cacheState, rateState, sumState>>

InitTruncate ==
    /\ OthersAtRest
    /\ \E t \in Transcripts, m \in 0..MaxM :
          trunc = [pc |-> "call", transcript |-> t, maxChars |-> m]
    /\ submit = NoCall /\ poller = NoCall /\ errs = NoCall /\ lastApi = NoCall

NextTruncate == TruncateStep /\ UNCHANGED othersState

SpecTruncate == InitTruncate /\ [][NextTruncate]_vars

InitResolve == InitExchange

NextResolve ==
    ResolveStep /\ UNCHANGED <<cacheState, rateState, sumState, compState>>

SpecResolve == InitResolve /\ [][NextResolve]_vars

InitApi == InitExchange

apiOthers == <<exState, sets, lastCache, rateState, sumState, trunc, submit, poller, errs>>

NextSearch == SearchStep /\ UNCHANGED apiOthers

SpecSearch == InitApi /\ [][NextSearch]_vars

NextMetadata == MetadataStep /\ UNCHANGED apiOthers

SpecMetadata == InitApi /\ [][NextMetadata]_vars

NextShared ==
    \/ TranscriptStep /\ UNCHANGED apiOthers
    \/ SummaryStep /\ UNCHANGED <<exState, sets, lastCache, rlLimit, rlWindow, swept,
                                  calls, compState>>

SpecShared == InitApi /\ [][NextShared]_vars

NextSharing ==
    SharingStep /\ UNCHANGED <<cacheState, rateState, sumState, compState>>

SpecSharing == InitExchange /\ [][NextSharing]_vars

NextKeyless ==
    KeylessStep /\ UNCHANGED <<cacheState, rateState, sumState, compState>>

SpecKeyless == InitExchange /\ [][NextKeyless]_vars

NextUpstream ==
    UpstreamStep /\ UNCHANGED <<exState, sets, lastCache, rlLimit, rlWindow, swept,
                                calls, compState>>

SpecUpstream == InitSummarize /\ [][NextUpstream]_vars

InitConcurrent ==
    /\ now = 0
    /\ ExchangeAtRest
    /\ CacheAtRest
    /\ RateAtRest /\ rlLimit = 1 /\ rlWindow = 1
    /\ inflight = [s \in TwoSlots |-> Idle]
    /\ lastSum = NoSumResponse
    /\ done = <<>>
    /\ apiKeySet = TRUE
    /\ CompAtRest

NextConcurrent ==
    ConcurrentStep /\ UNCHANGED <<exState, sets, lastCache, rlLimit, rlWindow, swept,
                                  calls, compState>>

SpecConcurrent == InitConcurrent /\ [][NextConcurrent]_vars

\* every upstream fetch settles and every back-off timer fires
UpstreamFairness ==
    /\ WF_vars((\E s \in Slots, a \in UpstreamAnswers : Answer(s, a))
                /\ UNCHANGED <<exState, sets, lastCache, rlLimit, rlWindow, swept,
                               calls, compState>>)
    /\ WF_vars((\E s \in Slots : Wake(s))
                /\ UNCHANGED <<exState, sets, lastCache, rlLimit, rlWindow, swept,
                               calls, compState>>)

SpecUpstreamLive == SpecUpstream /\ UpstreamFairness

NextParse ==
    ParseStep /\ UNCHANGED <<exState, sets, lastCache, rlLimit, rlWindow, swept,
                             calls, compState>>

SpecParse == InitSummarize /\ [][NextParse]_vars

InitErrors ==
    /\ OthersAtRest
    /\ trunc = NoCall /\ submit = NoCall /\ poller = NoCall /\ lastApi = NoCall
    /\ \E development \in BOOLEAN : errs = [development |-> development, sent |-> <<>>]

NextErrors == ErrorStep /\ UNCHANGED othersState

SpecErrors == InitErrors /\ [][NextErrors]_vars

InitPoll == OthersAtRest /\ CompAtRest

NextPoll == PollStep /\ UNCHANGED othersState

SpecPoll == InitPoll /\ [][NextPoll]_vars

\* every fetch settles and every timer fires
PollFairness ==
    /\ WF_vars((\E r \in PollResponses : PollSettles(r)) /\ UNCHANGED othersState)
    /\ WF_vars(TimerFires /\ UNCHANGED othersState)

SpecPollLive == SpecPoll /\ PollFairness

InitSubmit == OthersAtRest /\ CompAtRest

NextSubmit == SubmitStep /\ UNCHANGED othersState

SpecSubmit == InitSubmit /\ [][NextSubmit]_vars

(***************************************************************************)
(* Properties of the exchange.                                             *)
(***************************************************************************)
\* the payload is {dataId: "<email>_<digits>", learningData: {learning_path:
\* [at least one module]}} and carries no other identifier or e-mail
IsDataIdOnly(p) ==
    /\ p.dataId \in CompositeIds
    /\ Len(p.titles) >= 1
    /\ p = DataIdOnlyPayload(p.dataId, p.titles)

\* C1: a poll with "<email>_<digits>" that directly follows the callback
\* {dataId: "<email>_<digits>", learningData: {learning_path: [M, ...]}}
\* answers 200 with learning_path[0].module_title equal to M's title.
C1_Handshake ==
    [][(/\ lastResp.op = "POST"
        /\ IsDataIdOnly(lastResp.payload)
        /\ lastResp'.op = "GET"
        /\ lastResp'.id = lastResp.payload.dataId)
       => (/\ lastResp'.status = 200
           /\ Len(lastResp'.learning_path) >= 1
           /\ lastResp'.learning_path[1].module_title
                = TransformPath(lastResp.payload.titles)[1].module_title)]_vars

\* C2: a callback {dataId: "<email>_<digits>", learningData: {...}} is
\* accepted and its record is stored under the bare <email>.
C2_IdentifierResolution ==
    \A e \in Emails, stamp \in Stamps :
        (/\ lastResp.op = "POST"
         /\ IsDataIdOnly(lastResp.payload)
         /\ lastResp.payload.dataId = Composite(e, stamp))
        => (/\ lastResp.status = 200
            /\ lastResp.dataId = e
            /\ \E r \in db : /\ r.email = e
                             /\ r.learningPath = TransformPath(lastResp.payload.titles))

\* C3: the table never holds two rows for one key; after an accepted callback
\* the key's single row holds that callback's content, and a poll that
\* answers 200 returns the content of the latest accepted callback of its key.
C3_Idempotence ==
    /\ \A r1 \in db, r2 \in db : r1.email = r2.email => r1 = r2
    /\ (lastResp.op = "POST" /\ lastResp.status = 200)
          => \A r \in RowsOf(db, lastResp.dataId) :
                r.learningPath = lastResp.learning_path
    /\ (lastResp.op = "POST" /\ lastResp.status = 200)
          => RowsOf(db, lastResp.dataId) # {}
    /\ (lastResp.op = "GET" /\ lastResp.status = 200)
          => /\ HistOf(lastResp.dataId).live
             /\ lastResp.learning_path = HistOf(lastResp.dataId).learning_path

\* a second accepted callback for a key has replaced different content
C3_Witness ==
    /\ lastResp.op = "POST"
    /\ lastResp.status = 200
    /\ lastResp.replaced # <<>>
    /\ lastResp.replaced # lastResp.learning_path
    /\ Cardinality(RowsOf(db, lastResp.dataId)) = 1

\* C4: when a key's latest storing callback lies more than the expiration
\* horizon back, a poll for the key answers 404 and leaves no row for it.
C4_Expiry ==
    [][\A k \in DOMAIN hist :
          (/\ now > hist[k].time + CACHE_EXPIRATION
           /\ lastResp' # lastResp
           /\ lastResp'.op = "GET"
           /\ lastResp'.dataId = k)
          => (/\ lastResp'.status = 404
              /\ RowsOf(db', k) = {})]_vars

\* a poll has found an expired row, answered 404 and deleted it
C4_Witness ==
    /\ lastResp.op = "GET"
    /\ lastResp.status = 404
    /\ lastResp.note = "Data expired in DB"
    /\ RowsOf(db, lastResp.dataId) = {}

\* the per-key state machine with the horizon compared by Within
StateMachine(Within(_, _)) ==
    /\ \A k \in DOMAIN hist \cup {r.email : r \in db} :
          HistOf(k).live <=> RowsOf(db, k) # {}
    /\ (lastResp.op = "POST" /\ lastResp.status = 200)
          => RowsOf(db, lastResp.dataId) # {}
    /\ (lastResp.op = "GET" /\ lastResp.status # 400)
          => LET h == HistOf(lastResp.dataId)
             IN  IF h.live /\ Within(now, h.time)
                 THEN /\ lastResp.status = 200
                      /\ lastResp.learning_path = h.learning_path
                 ELSE lastResp.status = 404

StrictlyWithin(t, stored) == t < stored + CACHE_EXPIRATION

NotPast(t, stored) == t <= stored + CACHE_EXPIRATION

\* C5 as claimed: a poll returns the record of the latest accepted callback
\* exactly when that callback came after the key's last removal and less than
\* the horizon ago, and 404 otherwise.
C5_StateMachine_Claimed == StateMachine(StrictlyWithin)

\* C5 amended: ... exactly when that callback came after the key's last
\* removal and no more than the horizon ago, and 404 otherwise.
C5_StateMachine == StateMachine(NotPast)

\* a poll exactly at the horizon still returns the record
C5_Witness ==
    /\ lastResp.op = "GET"
    /\ lastResp.status = 200
    /\ now = HistOf(lastResp.dataId).time + CACHE_EXPIRATION


(***************************************************************************)
(* Properties of the resource cache.                                       *)
(***************************************************************************)
\* C10: get(k) with no time elapsed since set(k, v, ttl) returns v; get(k)
\* more than ttl after the set returns null, and after that get the entry
\* does not count toward size().
C10_CacheTtl ==
    \A k \in DOMAIN sets :
        (lastCache.op = "get" /\ lastCache.key = k)
        => /\ now = sets[k].time => lastCache.result = sets[k].value
           /\ now > sets[k].time + sets[k].ttl
                 => /\ lastCache.result = Null
                    /\ CacheSize(cache) = Cardinality(DOMAIN cache \ {k})

\* a get after the ttl has returned null while another entry is still counted
C10_Witness ==
    \E k \in DOMAIN sets :
        /\ lastCache.op = "get"
        /\ lastCache.key = k
        /\ now > sets[k].time + sets[k].ttl
        /\ lastCache.result = Null
        /\ CacheSize(cache) = 1

(***************************************************************************)
(* Properties of the rate limiter.                                         *)
(***************************************************************************)
\* the calls made for one identifier, in order
CallsOf(id) == SelectSeq(calls, LAMBDA c : c.id = id)

\* for every identifier: of the calls made within one window of the first,
\* exactly the first rlLimit return true; a call made a full window after
\* all earlier ones returns true
LimiterContract ==
    \A id \in Identifiers :
        LET cs == CallsOf(id)
        IN  \A n \in 1..Len(cs) :
              /\ cs[n].time - cs[1].time < rlWindow
                    => (cs[n].ok <=> n <= rlLimit)
              /\ (\A m \in 1..(n - 1) : cs[n].time - cs[m].time >= rlWindow)
                    => cs[n].ok

\* C9 as claimed: the contract holds for every limit and window.
C9_RateLimiter_Claimed == LimiterContract

\* C9 amended: the contract holds for every limit and every window that is
\* not longer than the sweep's cleanup window (120 s).
C9_RateLimiter == rlWindow <= CleanupWindow => LimiterContract

\* with a window of at most 120 s: the first rlLimit calls of a window were
\* allowed, the next was refused, and a call a full window later was allowed
C9_Witness ==
    /\ rlWindow <= CleanupWindow
    /\ \E id \in Identifiers :
          LET cs == CallsOf(id)
          IN  /\ Len(cs) = rlLimit + 2
              /\ cs[rlLimit + 1].time - cs[1].time < rlWindow
              /\ ~cs[rlLimit + 1].ok
              /\ cs[rlLimit + 2].time - cs[rlLimit + 1].time >= rlWindow
              /\ cs[rlLimit + 2].ok

(***************************************************************************)
(* Properties of the summarize handler.                                    *)
(***************************************************************************)
AuthOrQuota == {401, 403}

Statuses(answers) == [i \in DOMAIN answers |-> answers[i].status]

\* C6: an upstream answer 401 or 403 is not retried: it ends the request at
\* once (no request is still being handled after such an answer), it is the
\* last of the request's upstream calls, no back-off delay follows it, and
\* the response carries the error's own kind (500 for 401, 503 for 403).
C6_NoRetryOnAuthOrQuota ==
    /\ \A s \in Slots : \A i \in DOMAIN inflight[s].answers :
           inflight[s].answers[i].status \notin AuthOrQuota
    /\ \A i \in DOMAIN lastSum.answers :
           lastSum.answers[i].status \in AuthOrQuota =>
               /\ i = Len(lastSum.answers)
               /\ lastSum.fetches = i
               /\ Len(lastSum.delays) = i - 1
               /\ lastSum.status = MapError(UpstreamError(lastSum.answers[i].status))

\* a request the handler accepts for summarization
ValidSummarize(req) ==
    /\ req.method = "POST"
    /\ req.title # "" /\ req.videoUrl # ""
    /\ HasTranscript(req) \/ HasMetadata(req)

LongerThanMax(req) ==
    req.transcript # None /\ Len(req.transcript) > MAX_TRANSCRIPT_CHARS

\* upstream answered 429 first and a parseable success second
OneTransientFailure(r) ==
    /\ Statuses(r.answers) = <<429, 200>>
    /\ ExtractJSON(r.answers[2].text) # Null

TruncatedSuccess(r) ==
    /\ r.status = 200 /\ r.error = ""
    /\ r.result.isTruncated
    /\ r.fetches = 2

\* C7 as stated: every valid request with a transcript longer than the
\* maximum, answered 429 then a parseable success, gets 200 with
\* isTruncated true and no error after exactly two upstream calls.
C7_EndToEnd_Claimed ==
    (ValidSummarize(lastSum.req) /\ LongerThanMax(lastSum.req)
        /\ OneTransientFailure(lastSum)) => TruncatedSuccess(lastSum)

\* C7: the same for a request whose transcript is not blank (a blank
\* transcript is not used: the summary is made from the metadata).
C7_EndToEnd ==
    (ValidSummarize(lastSum.req) /\ LongerThanMax(lastSum.req)
        /\ HasTranscript(lastSum.req)
        /\ OneTransientFailure(lastSum)) => TruncatedSuccess(lastSum)

C7_Witness ==
    /\ ValidSummarize(lastSum.req) /\ LongerThanMax(lastSum.req)
    /\ HasTranscript(lastSum.req)
    /\ OneTransientFailure(lastSum)
    /\ lastSum.delays = <<1000>>
    /\ lastSum.result.isTruncated

\* a valid request for a videoId whose summary was generated and the cache
\* TTL has not elapsed since (not more than the TTL has passed)
Repeat(req) ==
    /\ ValidSummarize(req)
    /\ req.videoId \in DOMAIN done
    /\ now <= done[req.videoId].at + CACHE_TTL_SEC

\* the handler answers req with the stored result, marked cached, having
\* made no upstream call
AnsweredFromCache(req) ==
    lastSum' = SumResponse(req, 200, TRUE, done[req.videoId].result, "",
                           [Idle EXCEPT !.req = req])

\* the handler turns req away with 429, having made no upstream call
TurnedAway(req) ==
    lastSum' = SumResponse(req, 429, FALSE, NoResult, "Rate limited",
                           [Idle EXCEPT !.req = req])

Admitted(req) ==
    RateLimitAllows(requestCounts, GetClientIp(req), RATE_LIMIT_REQUESTS,
                    RATE_LIMIT_WINDOW_SEC, now)

\* C8 as stated: every repeat request for a videoId made before the TTL of
\* its generated summary elapses returns the stored result with cached: true
\* and makes no upstream call.
C8_CacheHit_Claimed ==
    [][\A s \in Slots, req \in SumRequests :
          (Repeat(req) /\ Start(s, req)) => AnsweredFromCache(req)]_vars

\* C8: every such repeat request that the rate limiter admits returns the
\* stored result with cached: true; one the rate limiter denies gets 429;
\* neither makes an upstream call.
C8_CacheHit ==
    [][\A s \in Slots :
          LET req == IF inflight'[s].pc = "idle" THEN lastSum'.req ELSE inflight'[s].req
          IN  (/\ inflight[s].pc = "idle"
               /\ req.videoId \in DOMAIN done
               /\ req \in SumRequests
               /\ Repeat(req)
               /\ Start(s, req)) =>
                  IF Admitted(req) THEN AnsweredFromCache(req) ELSE TurnedAway(req)]_vars

C8_Witness ==
    /\ lastSum.status = 200 /\ lastSum.cached
    /\ lastSum.req.videoId \in DOMAIN done
    /\ done[lastSum.req.videoId].at < now
    /\ lastSum.result = done[lastSum.req.videoId].result

(***************************************************************************)
(* Properties of truncateTranscript.                                       *)
(***************************************************************************)
IsPrefix(p, t) == Len(p) <= Len(t) /\ p = SubSeq(t, 1, Len(p))

\* the positions (counted from 1) of the periods among the first m characters
PeriodsWithin(t, m) == {i \in 1..m : i <= Len(t) /\ t[i] = "."}

Largest(S) == CHOOSE x \in S : \A y \in S : y <= x

\* C11: a transcript not longer than the maximum is returned unchanged with
\* isTruncated false; a longer one gives isTruncated true and a prefix of at
\* most the maximum's length: the prefix ending exactly at the last period
\* within the first M characters when that period's offset is beyond 90% of
\* M, and the first M characters otherwise.
C11_Truncation ==
    trunc.pc = "returned" =>
        LET t == trunc.transcript
            m == trunc.maxChars
            r == trunc.result
            P == PeriodsWithin(t, m)
        IN  IF Len(t) <= m
            THEN r.transcript = t /\ ~r.isTruncated
            ELSE /\ r.isTruncated
                 /\ IsPrefix(r.transcript, t)
                 /\ Len(r.transcript) <= m
                 /\ IF P # {} /\ 10 * (Largest(P) - 1) > 9 * m
                    THEN /\ Len(r.transcript) = Largest(P)
                         /\ r.transcript[Len(r.transcript)] = "."
                    ELSE Len(r.transcript) = m

\* a transcript was cut at a period before the maximum, although an earlier
\* period lies in the text too
C11_Witness ==
    /\ trunc.pc = "returned"
    /\ trunc.result.isTruncated
    /\ Len(trunc.result.transcript) < trunc.maxChars
    /\ Cardinality(PeriodsWithin(trunc.transcript, trunc.maxChars)) = 2

(***************************************************************************)
(* Properties of the submission endpoint.                                  *)
(***************************************************************************)
\* the reply that the payload and the primary webhook's answer call for
ReplyFor(site, payload, a) ==
    IF site = "route"
    THEN CASE MissingFields(payload) -> Reply(400, "Missing required fields: email, learningGoals")
           [] ~MissingFields(payload) /\ a.rejected ->
                 Reply(500, "Failed to generate learning data")
           [] ~MissingFields(payload) /\ ~a.rejected /\ ~a.ok ->
                 Reply(a.status, "n8n webhook failed with status")
           [] ~MissingFields(payload) /\ ~a.rejected /\ a.ok /\ a.json = "" ->
                 Reply(500, "Failed to generate learning data")
           [] OTHER -> Reply(200, a.json)
    ELSE CASE MissingFields(payload) -> Reply(0, "validation errors shown")
           [] ~MissingFields(payload) /\ (a.rejected \/ ~a.ok) ->
                 Reply(0, "Failed to submit form. Please try again.")
           [] OTHER -> Reply(0, "handleSubmit called")

\* C12: the reply is determined by the payload and the primary webhook's
\* answer alone, whether the secondary call succeeded, answered an error
\* status, was rejected or has not answered; no reply is given before the
\* primary call is through, and a secondary failure leaves at most a log line.
C12_FireAndForget ==
    submit # NoCall =>
        /\ submit.pc = "done" =>
              submit.reply = ReplyFor(submit.site, submit.payload, submit.primary)
        /\ submit.pc # "done" => submit.reply = NoReply
        /\ Len(submit.log) <= 1

\* the secondary call was rejected before the primary answered, and the
\* caller got the primary's plan
C12_Witness ==
    /\ submit # NoCall
    /\ submit.pc = "done"
    /\ submit.secondary = "settled"
    /\ submit.extra.rejected
    /\ submit.log # <<>>
    /\ submit.reply \in {Reply(200, "plan1"), Reply(0, "handleSubmit called")}

(***************************************************************************)
(* Properties of the callback's validation, key resolution and deletion.   *)
(***************************************************************************)
\* C13: a callback whose payload has no learningData is answered 400 and
\* stores nothing.
C13_MissingLearningData ==
    [][\A p \in Payloads :
          (~p.hasLearningData /\ Callback(p))
          => (lastResp'.status = 400 /\ db' = db)]_vars

\* the transformed record of payload p has no module or no plausible email
LacksModulesOrEmail(p) ==
    p.hasLearningData /\ (Len(p.titles) = 0 \/ ~Includes(p.email, "@"))

\* C14: a callback whose transformed record has no module or no plausible
\* email is answered 400 and leaves the table as it was: no row is created,
\* overwritten or given a later expiry.
C14_RejectedCallback ==
    [][LET p == lastResp'.payload
       IN  (/\ lastResp'.op = "POST"
            /\ p \in Payloads
            /\ LacksModulesOrEmail(p)
            /\ Callback(p))
           => (lastResp'.status = 400 /\ db' = db /\ hist' = hist)]_vars

\* a callback without a plausible email was rejected while the table holds
\* the row its dataId resolves to
C14_Witness ==
    /\ lastResp.op = "POST"
    /\ lastResp.status = 400
    /\ lastResp.payload.hasLearningData
    /\ Len(lastResp.payload.titles) > 0
    /\ ~Includes(lastResp.payload.email, "@")
    /\ RowsOf(db, ExtractEmailFromRequestId(lastResp.payload.dataId)) # {}

\* C15: after an accepted callback, a poll with the raw identifier R the
\* callback resolved, and a poll with the bare key N(R) the callback returned
\* as dataId, both answer 200 with that callback's record.
C15_BareKeyLookup ==
    [][(/\ lastResp.op = "POST"
        /\ lastResp.status = 200
        /\ lastResp'.op = "GET"
        /\ lastResp'.id \in {RawDataId(lastResp.payload,
                                       TransformN8nData(lastResp.payload), now),
                             lastResp.dataId})
       => (/\ lastResp'.status = 200
           /\ lastResp'.learning_path = lastResp.learning_path)]_vars

\* the first non-empty string among the payload's identifiers, in the order
\* dataId, top-level dataId, requestId, top-level requestId, e-mail addresses
FirstIdentifier(p) ==
    IF NonEmptyString(p.dataId) THEN p.dataId
    ELSE IF p.shape = "wrapped" /\ NonEmptyString(p.topDataId) THEN p.topDataId
    ELSE IF NonEmptyString(p.requestId) THEN p.requestId
    ELSE IF p.shape = "wrapped" /\ NonEmptyString(p.topRequestId) THEN p.topRequestId
    ELSE IF NonEmptyString(p.email) THEN p.email
    ELSE IF NonEmptyString(p.ldEmail) THEN p.ldEmail
    ELSE IF NonEmptyString(p.psEmail) THEN p.psEmail
    ELSE p.psContactEmail

\* C16: an accepted callback stores its record under the normalized first
\* identifier in the order dataId, top-level dataId, requestId, top-level
\* requestId, transformed email, raw email, learningData.email, profile
\* emails; with a dataId or requestId and a different email the key is the
\* normalized dataId or requestId, and no row is written under the email.
C16_KeyPriority ==
    [][\A p \in ResolvePayloads :
          (Callback(p) /\ lastResp'.status = 200)
          => LET key == ExtractEmailFromRequestId(FirstIdentifier(p))
             IN  /\ lastResp'.dataId = key
                 /\ \E r \in db' : /\ r.email = key
                                   /\ r.learningPath = TransformPath(p.titles)
                                   /\ r.expiresAt = now + CACHE_EXPIRATION
                 /\ \A k \in {r.email : r \in db \cup db'} \ {key} :
                       RowsOf(db', k) = RowsOf(db, k)]_vars

\* a callback with a dataId, a requestId and an email that all differ was
\* stored under the normalized dataId while the email has no row
C16_Witness ==
    /\ lastResp.op = "POST"
    /\ lastResp.status = 200
    /\ NonEmptyString(lastResp.payload.dataId)
    /\ NonEmptyString(lastResp.payload.requestId)
    /\ lastResp.payload.email # lastResp.dataId
    /\ lastResp.dataId = ExtractEmailFromRequestId(lastResp.payload.dataId)
    /\ RowsOf(db, lastResp.dataId) # {}
    /\ RowsOf(db, lastResp.payload.email) = {}

\* C17: a delete with an identifier answers 200 and leaves no row under the
\* normalized key, whether or not a row was there; a key without a row gets
\* one only by an accepted callback that resolves to it, and until then no
\* poll of that key answers 200.
C17_DeleteIdempotent ==
    [][/\ \A id \in DeleteIds :
             (NonEmptyString(id) /\ Delete(id))
             => (/\ lastResp'.status = 200
                 /\ RowsOf(db', ExtractEmailFromRequestId(id)) = {}
                 /\ \A k \in {r.email : r \in db} \ {ExtractEmailFromRequestId(id)} :
                       RowsOf(db', k) = RowsOf(db, k))
       /\ \A r \in db' :
             RowsOf(db, r.email) = {}
             => (/\ lastResp'.op = "POST"
                 /\ lastResp'.status = 200
                 /\ lastResp'.dataId = r.email)
       /\ (lastResp'.op = "GET" /\ lastResp'.status = 200)
             => RowsOf(db, lastResp'.dataId) # {}]_vars

\* a delete was answered 200 for a key that has no row, on a clock tick
\* where the key never had one, while another key keeps its row
C17_Witness ==
    /\ lastResp.op = "DELETE"
    /\ lastResp.status = 200
    /\ RowsOf(db, lastResp.dataId) = {}
    /\ db # {}
    /\ \A r \in db : r.expiresAt = now + CACHE_EXPIRATION

(***************************************************************************)
(* Properties of the client's polling loop.                                *)
(***************************************************************************)
\* the loop is within its budget: as many fetches as attempts, none beyond
\* the limit, and the fixed interval waited between any two of them
WithinBudget ==
    poller # NoCall =>
        /\ poller.attempts >= 1
        /\ poller.attempts <= (IF poller.variant = "page" THEN 60 ELSE 120)
        /\ poller.waited
             = (poller.attempts - 1) * (IF poller.variant = "page" THEN 2000 ELSE 1000)

\* handleSubmit has ended on the dashboard, not loading, with the received
\* plan or else, after the last attempt, the default data
VisibleOutcome ==
    (poller # NoCall /\ poller.pc = "finished") =>
        /\ poller.screen = "dashboard"
        /\ ~poller.isLoadingData
        /\ IF poller.received
           THEN poller.learningData # defaultLearningData
           ELSE /\ poller.learningData = defaultLearningData
                /\ poller.attempts = (IF poller.variant = "page" THEN 60 ELSE 120)

\* C18: whatever the polls answer, the loop makes at most maxAttempts polls
\* a fixed interval apart, and a submission always ends on the dashboard with
\* isLoadingData false, showing the received plan or else the default data.
C18_PollingTerminates ==
    /\ []WithinBudget
    /\ []VisibleOutcome
    /\ [](poller # NoCall => <>(poller.pc = "finished"))

\* the last allowed poll of the first variant was answered 404 and the
\* dashboard shows the default data
C18_Witness ==
    /\ poller # NoCall
    /\ poller.pc = "finished"
    /\ poller.variant = "page"
    /\ poller.attempts = 60
    /\ ~poller.received
    /\ poller.learningData = defaultLearningData
    /\ poller.screen = "dashboard"

(***************************************************************************)
(* Properties of the summarize handler's failures and parsing.             *)
(***************************************************************************)
\* C19: a request that fails upstream is answered 429 when every attempt of
\* the retry budget was answered 429, 503 when the last upstream answer was
\* 403 (quota exceeded), and 500 when the API key is missing, the last
\* upstream answer was 401, or the model text cannot be parsed.
C19_FailureMapping ==
    LET r == lastSum
        n == Len(r.answers)
    IN  /\ (n = Retries + 1 /\ \A i \in 1..n : r.answers[i].status = 429)
              => r.status = 429
        /\ (n > 0 /\ r.answers[n].status = 403) => r.status = 503
        /\ (n > 0 /\ r.answers[n].status = 401) => r.status = 500
        /\ (n > 0 /\ r.answers[n].status = 200 /\ r.answers[n].json
                  /\ r.answers[n].text = <<"w">>) => r.status = 500
        /\ (~apiKeySet /\ r.req = PlainRequest /\ r.error # "Rate limited")
              => r.status = 500

\* the index of the brace that closes the object opened at index i, or 0
RECURSIVE ClosingBrace(_, _, _, _)
ClosingBrace(text, i, j, open) ==
    IF j > Len(text) THEN 0
    ELSE IF text[j] = "{" THEN ClosingBrace(text, i, j + 1, open + 1)
    ELSE IF text[j] = "}"
    THEN IF open = 1 THEN j ELSE ClosingBrace(text, i, j + 1, open - 1)
    ELSE ClosingBrace(text, i, j + 1, open)

FirstBrace(text) ==
    CHOOSE i \in 1..Len(text) : text[i] = "{" /\ \A k \in 1..(i - 1) : text[k] # "{"

LastBrace(text) ==
    CHOOSE j \in 1..Len(text) : text[j] = "}" /\ \A k \in (j + 1)..Len(text) : text[k] # "}"

\* the first top-level {...} block of the text, or the empty text
FirstBlock(text) ==
    IF ~Includes(text, "{") THEN <<>>
    ELSE LET i == FirstBrace(text)
             j == ClosingBrace(text, i, i + 1, 1)
         IN  IF j = 0 THEN <<>> ELSE SubSeq(text, i, j)

\* the text from its first "{" to its last "}", or the empty text
BraceSpan(text) ==
    IF Includes(text, "{") /\ Includes(text, "}") /\ FirstBrace(text) < LastBrace(text)
    THEN SubSeq(text, FirstBrace(text), LastBrace(text))
    ELSE <<>>

\* the response just given answers a request that reached the model
Parsed == lastSum.status # 0 /\ Len(lastSum.answers) = 1

\* the request ended with the parse error and cached nothing
ParseError ==
    /\ lastSum.status = 500
    /\ lastSum.error = "Failed to process AI response"
    /\ lastSum.result = NoResult
    /\ \A k \in DOMAIN cache : cache[k].expiresAt # now + CACHE_TTL_SEC

\* the request succeeded with the summary of the JSON text `json`
ParsedAs(json) ==
    /\ lastSum.status = 200
    /\ lastSum.result.summary
         = (IF \E i \in 1..Len(json) : json[i] = "s" /\ Depth(json, i) = 1
            THEN "s1" ELSE "Unable to generate summary")

\* the outcome of parsing, with Extract(text) the part tried when the
\* text as a whole is not JSON
Parsing(Extract(_)) ==
    Parsed =>
        LET text == lastSum.answers[1].text
        IN  IF IsJson(text) THEN ParsedAs(text)
            ELSE IF IsJson(Extract(text)) THEN ParsedAs(Extract(text))
            ELSE ParseError

C21_NoInternalDetail ==
    (errs # NoCall /\ ~errs.development) =>
        \A i \in DOMAIN errs.sent :
            /\ errs.sent[i].details = Undefined
            /\ \A endpoint \in Endpoints : errs.sent[i].error \notin MessagesOf(endpoint)

(***************************************************************************)
(* Properties of the retry loop.                                           *)
(***************************************************************************)
\* the message of the error that upstream answer a makes callGeminiAPI catch
ErrorOfAnswer(a) ==
    IF ~a.json THEN "Unexpected token < in JSON at position 0"
    ELSE CASE a.status = 429 -> "Rate limited by Gemini API"
           [] a.status = 401 -> "Invalid Gemini API key"
           [] a.status = 403 -> "Gemini API quota exceeded"
           [] OTHER          -> "Gemini API error"

\* a request under way has made at most three upstream calls, one at a
\* time, each but the first after a delay of 1 s, then 2 s
LoopInBounds ==
    \A s \in Slots :
        LET h == inflight[s]
        IN  h.pc # "idle" =>
              /\ h.fetches <= 3
              /\ h.fetches = h.attempt + 1
              /\ h.fetches - Len(h.answers) = (IF h.pc = "fetch" THEN 1 ELSE 0)
              /\ Len(h.delays) = (IF h.pc = "sleep" THEN h.attempt + 1 ELSE h.attempt)
              /\ \A k \in DOMAIN h.delays : h.delays[k] = (2 ^ (k - 1)) * 1000

\* a request that went upstream and was answered: the calls and delays it
\* took, and the outcome of its last attempt
LoopOutcome ==
    LET r == lastSum
        n == Len(r.answers)
    IN  (r.status # 0 /\ n > 0) =>
          /\ n <= 3
          /\ r.fetches = n
          /\ Len(r.delays) = n - 1
          /\ \A k \in DOMAIN r.delays : r.delays[k] = (2 ^ (k - 1)) * 1000
          /\ \A k \in 1..(n - 1) : ~(r.answers[k].json /\ r.answers[k].status = 200)
          /\ IF r.answers[n].json /\ r.answers[n].status = 200
             THEN r.status \in {200, 500} /\ r.error \in {"", "Failed to process AI response"}
             ELSE n = 3 /\ r.error = ErrorOfAnswer(r.answers[n])

\* C22: a summarize request makes at most retries + 1 = 3 upstream calls,
\* one at a time, waits 1 s after the failure of attempt 0 and 2 s after the
\* failure of attempt 1, takes no delay after the last attempt, and ends
\* with the successful response or the error of the last attempt.
C22_RetryLoop ==
    /\ []LoopInBounds
    /\ []LoopOutcome
    /\ \A s \in Slots : [](inflight[s].pc # "idle" => <>(inflight[s].pc = "idle"))

\* three attempts were answered 429: two delays, 1 s and 2 s, then the
\* error of the third attempt
C22_Witness ==
    /\ lastSum.status = 429
    /\ lastSum.fetches = 3
    /\ lastSum.delays = <<1000, 2000>>
    /\ \A k \in 1..3 : lastSum.answers[k].status = 429 /\ lastSum.answers[k].json

(***************************************************************************)
(* Properties of concurrent summarize requests.                            *)
(***************************************************************************)
AllIdle == \A s \in DOMAIN inflight : inflight[s].pc = "idle"

\* the summary of videoId was generated and, by its TTL, is still cached
StillCached(videoId) ==
    /\ videoId \in DOMAIN done
    /\ now <= done[videoId].at + CACHE_TTL_SEC

\* the cache holds the last writer's result for every video that is still cached
LastWriterCached ==
    AllIdle =>
        \A videoId \in DOMAIN done :
            StillCached(videoId) =>
                LET key == GenerateCacheKey(videoId) \o "_summary"
                IN  /\ key \in DOMAIN cache
                    /\ cache[key].value = done[videoId].result
                    /\ cache[key].expiresAt = done[videoId].at + CACHE_TTL_SEC
                    /\ DOMAIN cache = {key}

Denied(id) == ~RateLimitAllows(requestCounts, id, rlLimit, rlWindow, now)

\* the moments from now on at which a check of id would be allowed
AllowedMoments(counts, id) ==
    {t \in now..(MaxRateTime + MaxWindow) :
        RateLimitAllows(counts, id, rlLimit, rlWindow, t)}

\* C24: a call of checkRateLimit that returns false leaves the stored
\* timestamps of every identifier as they were, so the moments at which the
\* identifier is allowed again stay the same.
C24_DeniedNotRecorded ==
    [][\A id \in Identifiers :
          (Denied(id) /\ CheckRateLimit(id))
          => /\ \A other \in Identifiers :
                    TimestampsOf(requestCounts', other) = TimestampsOf(requestCounts, other)
             /\ AllowedMoments(requestCounts', id) = AllowedMoments(requestCounts, id)]_vars

\* an identifier was denied twice in a row, at different moments, and
\* allowed afterwards
C24_Witness ==
    \E i, j, k \in DOMAIN calls :
        /\ i < j /\ j < k
        /\ calls[i].id = calls[j].id /\ calls[j].id = calls[k].id
        /\ ~calls[i].ok /\ ~calls[j].ok /\ calls[k].ok
        /\ calls[i].time < calls[j].time

(***************************************************************************)
(* Properties of callbacks without an e-mail address.                      *)
(***************************************************************************)
EmailLike(v) == IsString(v) /\ Includes(v, "@")

\* no candidate location of the payload holds an e-mail-like value
NoEmailLikeKey(p) ==
    \A v \in {p.dataId, p.requestId, p.topDataId, p.topRequestId, p.email,
              p.ldEmail, p.psEmail, p.psContactEmail} : ~EmailLike(v)

\* C25: a callback whose payload has a learning path but no e-mail-like key
\* in any candidate location is stored under the generated key
\* learning-<timestamp>, answers 200 with that key as dataId, and a poll
\* with that key retrieves the record.
C25_SyntheticKey ==
    [][\A p \in KeylessPayloads :
          (NoEmailLikeKey(p) /\ p.hasLearningData /\ Len(p.titles) > 0 /\ Callback(p))
          => /\ lastResp'.status = 200
             /\ lastResp'.dataId = SyntheticId(now)
             /\ RowsOf(db', SyntheticId(now)) # {}]_vars

(***************************************************************************)
(* Properties of summarize requests without a video identifier.            *)
(***************************************************************************)
\* C26: when a valid request without videoId has just been answered with a
\* generated summary, the same request made again, admitted by the rate
\* limiter, is answered 200 with cached: true and no upstream call.
C26_ContentKeyed ==
    [][\A s \in Slots, req \in SumRequests :
          (/\ req.videoId = ""
           /\ lastSum.req = req /\ lastSum.status = 200 /\ ~lastSum.cached
           /\ ValidSummarize(req)
           /\ Admitted(req)
           /\ Start(s, req))
          => /\ lastSum'.status = 200
             /\ lastSum'.cached
             /\ lastSum'.fetches = 0
             /\ inflight'[s].pc = "idle"]_vars

(***************************************************************************)
(* Properties of the endpoints that share the cache.                       *)
(***************************************************************************)
\* C27: a search answered from the cache gets a result that was stored for
\* the query and the filter combination it asks for.
C27_SearchKeySeparates ==
    (lastApi # NoCall /\ lastApi.endpoint = "search" /\ lastApi.cached)
    => /\ Field(lastApi.body, "query") = lastApi.input.query
       /\ Field(lastApi.body, "filters") = lastApi.input.filters

\* C29: a summarize response marked cached carries a value that a summarize
\* request stored, never a transcript object.
C29_NoCollision ==
    lastSum.cached
    => /\ "summary" \in DOMAIN lastSum.result
       /\ "transcript" \notin DOMAIN lastSum.result

\* C30: a metadata response answered from the cache carries the metadata of
\* the videoId that was asked for.
C30_MetadataPerVideo ==
    (lastApi # NoCall /\ lastApi.endpoint = "metadata" /\ lastApi.cached)
    => Field(lastApi.body, "videoId") = Text(lastApi.input)

(***************************************************************************)
(* Properties of request identifiers that share an e-mail address.         *)
(***************************************************************************)
\* the table holds a row for the e-mail address that has not expired
Unexpired(email) == \E r \in RowsOf(db, email) : ~Expired(r, now)

\* C28: the identifiers of one e-mail address resolve to the same key, the
\* bare address; while the record that the callback of the first request
\* stored is unexpired, a poll with the identifier of a second request of
\* the same address answers 200 with that record, and answers exactly what
\* a poll with the first identifier would.
C28_SharedRecord ==
    /\ [](\A e \in Emails \cup {EmailU}, stamp \in Stamps :
             ExtractEmailFromRequestId(Composite(e, stamp)) = e)
    /\ [][\A e \in Emails :
             (/\ lastResp'.op = "GET"
              /\ lastResp'.id = Composite(e, SecondStamp)
              /\ Unexpired(e)
              /\ Poll(Composite(e, SecondStamp)))
             => /\ lastResp'.status = 200
                /\ lastResp'.dataId = e
                /\ lastResp'.learning_path = HistOf(e).learning_path
                /\ \A r \in RowsOf(db, e) : lastResp'.learning_path = r.learningPath
                /\ lastResp' = [Response("GET", Composite(e, FirstStamp), NoPayload, 200,
                                         e, HistOf(e).learning_path, "", <<>>)
                                   EXCEPT !.id = Composite(e, SecondStamp)]]_vars

\* a poll with the identifier of the second request has been answered with
\* the plan that the callback of the first request stored
C28_Witness ==
    /\ lastResp.op = "GET"
    /\ lastResp.id = Composite(EmailA, SecondStamp)
    /\ lastResp.status = 200
    /\ lastResp.learning_path = TransformPath(<<"M2", NoTitle>>)
    /\ HistOf(EmailA).time < now

====
